---------------------------- MODULE Spec2Model ----------------------------
(***************************************************************************)
(* The observer graph engine: BaseNode (edges, observers, the update       *)
(* pipeline and its fan-out) and ObserverGraph (registry, global           *)
(* middleware, trigger_event).                                             *)
(***************************************************************************)
EXTENDS Integers, Sequences, FiniteSets, TLC

(***************************************************************************)
(* Universe and bounds                                                     *)
(***************************************************************************)

\* The BaseNode objects that exist (object identity, not node id).
Node == {"n1", "n2", "n3", "n4"}

\* The objects the structural specifications construct and connect.
GraphNodes == {"n1", "n2", "n3"}

\* The objects the observer-set specification works on.
PairNodes == {"n1", "n2"}

\* Absent registry entry (dict.get returning None).
NoNode == "None"

\* The node ids used as registry keys; "zz" is never given to a node.
NodeIds == {"a", "b", "c", "d", "zz"}

\* The middleware objects a host registers globally, and one a node
\* attaches to itself in its constructor.
GlobalMw == {"m1", "m2"}
OwnMw == "own"

\* At most this many add_global_middleware calls.
MaxGlobalMiddleware == 2

VARIABLES
    \* ObserverGraph
    nodes,              \* _nodes: id -> node object (or NoNode)
    global_middleware,  \* _global_middleware: list
    \* BaseNode, per object
    id,                 \* self.id
    node_class,         \* the class the object was constructed from
    config,             \* self.config
    state,              \* self.state
    observers,          \* self._observers
    outgoing_edges,     \* self._outgoing_edges
    incoming_edges,     \* self._incoming_edges
    processors,         \* self._processors
    middleware,         \* self._middleware
    event_filters,      \* self._event_filters
    event_history,      \* self._event_history
    metrics,            \* self._metrics
    fanned_out,         \* per node: every event given to notify_observers
    \* events and the running call chain
    heap,               \* the GraphEvent objects, by identity (index)
    stack,              \* the update() calls in progress, innermost last
    clock,              \* datetime.now(), as a logical clock
    triggers,           \* trigger_event calls made so far
    \* observation of the run
    received,           \* per node: every update(event) invocation
    calls,              \* per node: hook and processor invocations
    ret,                \* the update() call that has just returned/raised
    \* what the caller of the last graph/host call observed
    outcome,
    \* the collections before the last add_edge_to (round-trip bookkeeping)
    rt,
    \* the components that talk to the outside
    http,               \* an HTTP request processor and its process() call
    mqtt,               \* an MQTTConnectionManager and its connect() call
    sub,                \* an MQTTSubscriberNode and its listener task
    pub,                \* an MQTTPublisherNode and its update() calls
    mapper,             \* a MapperProcessor and its process() calls
    \* a second call chain of the event loop, suspended in an await
    parked

graphVars == <<nodes, global_middleware>>
edgeVars == <<observers, outgoing_edges, incoming_edges>>
cfgVars == <<id, node_class, config, processors, middleware, event_filters>>
nodeVars == <<state, event_history, metrics, fanned_out>>
\* The graph operations and the pipeline leave the I/O components alone.
ioVars == <<http, mqtt, sub, pub, mapper, parked>>
runVars == <<heap, stack, clock, triggers, received, calls, ret, ioVars>>
vars == <<nodes, global_middleware, id, node_class, config, state, observers,
          outgoing_edges, incoming_edges, processors, middleware,
          event_filters, event_history, metrics, fanned_out, heap, stack,
          clock, triggers, received, calls, ret, outcome, rt, http, mqtt, sub,
          pub, mapper, parked>>

OK == [op |-> "none", arg |-> NoNode, exc |-> "none"]
Raised(op, arg, exc) == [op |-> op, arg |-> arg, exc |-> exc]
\* Round-trip bookkeeping: stage 0 = nothing recorded, 1 = add_edge_to(s, t)
\* was the last call, 2 = remove_edge_to(s, t) followed it directly;
\* RtOff = the specification does not record round trips.
NoRt == [stage |-> 0]
RtOff == [stage |-> -1]
Record(v) == IF rt = RtOff THEN RtOff ELSE v

\* No process() or connect() call has been made.
NoHttp == [pc |-> "none"]
NoMqtt == [pc |-> "none"]
\* No subscriber and no publisher node has been constructed.
NoSub == [pc |-> "none"]
NoPub == [pc |-> "none"]
\* No mapper has been constructed.
NoMapper == [pc |-> "none"]

\* config or {}: no rules, no default target.
NoConfig == [rules |-> <<>>, default_target |-> NoNode]

\* BaseNode.__init__: the fields of a freshly constructed node.
NewMetrics == [events_processed |-> 0, events_sent |-> 0, errors |-> 0,
               last_activity |-> 0]

InitNodes ==
    /\ state = [n \in Node |-> "IDLE"]
    /\ observers = [n \in Node |-> {}]
    /\ outgoing_edges = [n \in Node |-> {}]
    /\ incoming_edges = [n \in Node |-> {}]
    /\ event_history = [n \in Node |-> <<>>]
    /\ metrics = [n \in Node |-> NewMetrics]
    /\ fanned_out = [n \in Node |-> <<>>]

NoRet == [kind |-> "none"]
NoCalls == [before |-> 0, process |-> 0, after |-> 0]

\* Nothing has run yet.
InitRun ==
    /\ heap = <<>>
    /\ stack = <<>>
    /\ clock = 0
    /\ triggers = 0
    /\ received = [n \in Node |-> <<>>]
    /\ calls = [n \in Node |-> NoCalls]
    /\ ret = NoRet

\* ObserverGraph.__init__
InitGraph ==
    /\ nodes = [i \in NodeIds |-> NoNode]
    /\ global_middleware = <<>>

Registered(n) == \E i \in NodeIds : nodes[i] = n

Count(x, s) == Cardinality({k \in 1..Len(s) : s[k] = x})

(***************************************************************************)
(* BaseNode: observers and edges                                           *)
(***************************************************************************)

\* BaseNode.add_observer
AddObserver(s, o) == observers' = [observers EXCEPT ![s] = @ \cup {o}]

\* BaseNode.remove_observer
RemoveObserver(s, o) == observers' = [observers EXCEPT ![s] = @ \ {o}]

\* A slip: the target is registered as observer but the back-reference in
\* target._incoming_edges is not kept.
AddEdgeToNoIncoming(s, t) ==
    IF t \notin outgoing_edges[s]
    THEN /\ outgoing_edges' = [outgoing_edges EXCEPT ![s] = @ \cup {t}]
         /\ incoming_edges' = incoming_edges
         /\ AddObserver(s, t)
    ELSE UNCHANGED edgeVars

\* BaseNode.add_edge_to
AddEdgeTo(s, t) ==
    IF t \notin outgoing_edges[s]
    THEN /\ outgoing_edges' = [outgoing_edges EXCEPT ![s] = @ \cup {t}]
         /\ incoming_edges' = [incoming_edges EXCEPT ![t] = @ \cup {s}]
         /\ AddObserver(s, t)
    ELSE UNCHANGED edgeVars

\* A slip: the edge is dropped but the observer stays registered.
RemoveEdgeToKeepObserver(s, t) ==
    /\ outgoing_edges' = [outgoing_edges EXCEPT ![s] = @ \ {t}]
    /\ incoming_edges' = [incoming_edges EXCEPT ![t] = @ \ {s}]
    /\ observers' = observers

\* BaseNode.remove_edge_to
RemoveEdgeTo(s, t) ==
    /\ outgoing_edges' = [outgoing_edges EXCEPT ![s] = @ \ {t}]
    /\ incoming_edges' = [incoming_edges EXCEPT ![t] = @ \ {s}]
    /\ RemoveObserver(s, t)

Snapshot(s, t) ==
    [stage |-> 1, s |-> s, t |-> t, out |-> outgoing_edges[s],
     inc |-> incoming_edges[t], obs |-> observers[s]]

\* host call: s.add_edge_to(t)
add_edge_to(s, t) ==
    /\ AddEdgeTo(s, t)
    /\ rt' = Record(Snapshot(s, t))
    /\ outcome' = OK
    /\ UNCHANGED <<graphVars, cfgVars, nodeVars, runVars>>

\* host call: s.remove_edge_to(t)
remove_edge_to(s, t) ==
    /\ RemoveEdgeTo(s, t)
    /\ rt' = Record(IF rt.stage = 1 /\ rt.s = s /\ rt.t = t
                    THEN [rt EXCEPT !.stage = 2] ELSE NoRt)
    /\ outcome' = OK
    /\ UNCHANGED <<graphVars, cfgVars, nodeVars, runVars>>

\* host call: s.add_observer(o)
add_observer(s, o) ==
    /\ AddObserver(s, o)
    /\ rt' = Record(NoRt)
    /\ outcome' = OK
    /\ UNCHANGED <<outgoing_edges, incoming_edges, graphVars, cfgVars, nodeVars,
                   runVars>>

\* host call: s.remove_observer(o)
remove_observer(s, o) ==
    /\ RemoveObserver(s, o)
    /\ rt' = Record(NoRt)
    /\ outcome' = OK
    /\ UNCHANGED <<outgoing_edges, incoming_edges, graphVars, cfgVars, nodeVars,
                   runVars>>

(***************************************************************************)
(* ObserverGraph: registry, edges by id, global middleware                 *)
(***************************************************************************)

\* A slip: the global middleware is attached before the id is checked.
AddNodeAttachFirst(n) ==
    /\ middleware' = [middleware EXCEPT ![n] = @ \o global_middleware]
    /\ IF nodes[id[n]] # NoNode
       THEN /\ outcome' = Raised("add_node", n, "ValueError")
            /\ UNCHANGED nodes
       ELSE /\ nodes' = [nodes EXCEPT ![id[n]] = n]
            /\ outcome' = OK
    /\ rt' = Record(NoRt)
    /\ UNCHANGED <<global_middleware, id, node_class, config, processors,
                   event_filters, edgeVars, nodeVars, runVars>>

\* A slip: a node added after the global middleware does not receive it.
AddNodeNoAttach(n) ==
    /\ IF nodes[id[n]] # NoNode
       THEN /\ outcome' = Raised("add_node", n, "ValueError")
            /\ UNCHANGED <<nodes, middleware>>
       ELSE /\ nodes' = [nodes EXCEPT ![id[n]] = n]
            /\ UNCHANGED middleware
            /\ outcome' = OK
    /\ rt' = Record(NoRt)
    /\ UNCHANGED <<global_middleware, id, node_class, config, processors,
                   event_filters, edgeVars, nodeVars, runVars>>

\* ObserverGraph.add_node
add_node(n) ==
    /\ IF nodes[id[n]] # NoNode
       THEN /\ outcome' = Raised("add_node", n, "ValueError")
            /\ UNCHANGED <<nodes, middleware>>
       ELSE /\ middleware' = [middleware EXCEPT ![n] = @ \o global_middleware]
            /\ nodes' = [nodes EXCEPT ![id[n]] = n]
            /\ outcome' = OK
    /\ rt' = Record(NoRt)
    /\ UNCHANGED <<global_middleware, id, node_class, config, processors,
                   event_filters, edgeVars, nodeVars, runVars>>

\* ObserverGraph.add_edge
add_edge(from_id, to_id) ==
    /\ IF nodes[from_id] = NoNode \/ nodes[to_id] = NoNode
       THEN /\ outcome' = Raised("add_edge", NoNode, "ValueError")
            /\ UNCHANGED edgeVars
       ELSE /\ AddEdgeTo(nodes[from_id], nodes[to_id])
            /\ outcome' = OK
    /\ rt' = Record(NoRt)
    /\ UNCHANGED <<graphVars, cfgVars, nodeVars, runVars>>

\* ObserverGraph.add_global_middleware
add_global_middleware(m) ==
    /\ Len(global_middleware) < MaxGlobalMiddleware
    /\ global_middleware' = Append(global_middleware, m)
    /\ middleware' = [n \in Node |->
                        IF Registered(n) THEN Append(middleware[n], m)
                        ELSE middleware[n]]
    /\ outcome' = OK
    /\ rt' = Record(NoRt)
    /\ UNCHANGED <<nodes, id, node_class, config, processors, event_filters,
                   edgeVars, nodeVars, runVars>>

(***************************************************************************)
(* SpecGraph: a host building a graph. n1 and n3 are constructed with the  *)
(* same id; n2 attaches a middleware of its own in its constructor.        *)
(***************************************************************************)

InitBuild ==
    /\ InitGraph
    /\ InitNodes
    /\ InitRun
    /\ id = [n \in Node |-> CASE n = "n1" -> "a" [] n = "n2" -> "b"
                              [] n = "n3" -> "a" [] OTHER -> "d"]
    /\ node_class = [n \in Node |-> "BaseNode"]
    /\ config = [n \in Node |-> NoConfig]
    /\ processors = [n \in Node |-> <<>>]
    /\ middleware = [n \in Node |-> IF n = "n2" THEN <<OwnMw>> ELSE <<>>]
    /\ event_filters = [n \in Node |-> <<>>]
    /\ outcome = OK

\* No HTTP processor and no connection manager is in use.
NoIo ==
    /\ http = NoHttp
    /\ mqtt = NoMqtt
    /\ sub = NoSub
    /\ pub = NoPub
    /\ mapper = NoMapper
    /\ parked = <<>>

InitGraphSpec == InitBuild /\ rt = RtOff /\ NoIo

NextGraph ==
    \/ \E n \in GraphNodes : add_node(n)
    \/ \E m \in GlobalMw : add_global_middleware(m)
    \/ \E i, j \in {"a", "b", "zz"} : add_edge(i, j)
    \/ \E s, t \in GraphNodes : add_edge_to(s, t)
    \/ \E s, t \in GraphNodes : remove_edge_to(s, t)

SpecGraph == InitGraphSpec /\ [][NextGraph]_vars

(***************************************************************************)
(* SpecObservers: the public edge and observer operations of plain nodes.  *)
(***************************************************************************)

InitObservers == InitBuild /\ rt = NoRt /\ NoIo

NextObservers ==
    \/ \E s, t \in PairNodes : add_edge_to(s, t)
    \/ \E s, t \in PairNodes : remove_edge_to(s, t)
    \/ \E s, t \in PairNodes : add_observer(s, t)
    \/ \E s, t \in PairNodes : remove_observer(s, t)

SpecObservers == InitObservers /\ [][NextObservers]_vars

(***************************************************************************)
(* Events                                                                  *)
(***************************************************************************)

\* Payloads: a number, or the dict of an error event.
Num(v) == [kind |-> "num", value |-> v]
ErrorData(msg, orig) ==
    [kind |-> "dict", error |-> msg, original_request |-> orig]

\* The dict {"value": v}.
Obj(v) == [kind |-> "obj", value |-> v]

\* Payload values: a dict, a str, bytes, and an object json.dumps rejects.
Dict(fields) == [kind |-> "dict", value |-> fields]
Text(s) == [kind |-> "str", value |-> s]
Bytes(encoding, of) == [kind |-> "bytes", encoding |-> encoding, of |-> of]
Opaque == [kind |-> "object", value |-> "socket"]

\* isinstance(event.data, (int, float))
IsNumber(d) == d.kind = "num"

\* A dict of strings is the set of its items; {"k": v}, the keys of a dict
\* and {**a, **b}, in which the items of b replace those of a.
Item(key, value) == <<key, value>>
Keys(d) == {item[1] : item \in d}
DictMerge(a, b) == {item \in a : item[1] \notin Keys(b)} \cup b

\* GraphEvent(type=..., data=..., source_id=...); metadata is an empty dict
\* unless one is given.
GraphEvent(type, data, source_id) ==
    [type |-> type, data |-> data, source_id |-> source_id, metadata |-> {}]
WithMetadata(event, metadata) == [event EXCEPT !.metadata = metadata]

\* BaseNode.create_error_event
create_error_event(error_message, original_event, node_id) ==
    WithMetadata(
        GraphEvent("ERROR", ErrorData(error_message, original_event.data),
                   node_id),
        DictMerge({Item("status", "error")}, original_event.metadata))

\* deque(maxlen=100)
HistoryMaxLen == 100

\* A slip: a full history refuses the new event instead of evicting the
\* oldest one.
AppendHistoryKeepOldest(h, e) ==
    IF Len(h) >= HistoryMaxLen THEN h ELSE Append(h, e)

\* deque.append on a bounded deque
AppendHistory(h, e) ==
    LET a == Append(h, e) IN IF Len(a) > HistoryMaxLen THEN Tail(a) ELSE a

\* The bookkeeping at the head of notify_observers(e) on node n, with heap h
\* and metrics m at the call: the event is stamped with the node's id and
\* recorded, events_sent and last_activity are updated.
Announce(n, e, h, m) ==
    /\ heap' = [h EXCEPT ![e].source_id = id[n]]
    /\ event_history' = [event_history EXCEPT ![n] = AppendHistory(@, e)]
    /\ fanned_out' = [fanned_out EXCEPT ![n] = Append(@, e)]
    /\ metrics' = [m EXCEPT ![n].events_sent = @ + 1,
                            ![n].last_activity = clock + 1]
    /\ clock' = clock + 1

(***************************************************************************)
(* BaseNode.update and notify_observers, one step per await                *)
(***************************************************************************)

\* Bounds of a run.
MaxEvents == 4
MaxDepth == 3
MaxTriggers == 1
MaxDisabled == 1
\* A node is re-entered at most this many times while it is running.
MaxReentry == 1
\* While a call chain is parked, this many more trigger_event calls are
\* followed.
MaxOverlapping == 1

fixed == <<nodes, global_middleware, id, node_class, config, observers,
           outgoing_edges, incoming_edges, processors, middleware,
           event_filters, rt, ioVars>>

\* The number of update calls of node n in progress.
Running(n) == Cardinality({k \in DOMAIN stack : stack[k].node = n})

top == stack[Len(stack)]

\* The update call f is at an await that can suspend it: the hook of a
\* middleware, or process of the selected processor.
Awaiting(f) ==
    \/ f.pc \in {"before", "after"} /\ f.i <= Len(middleware[f.node])
    \/ f.pc = "process"
Rest == SubSeq(stack, 1, Len(stack) - 1)
SetTop(f) == [stack EXCEPT ![Len(stack)] = f]

\* What a processor object does: the classes of main.py are modelled as
\* written, any other processor may do anything its interface allows.
Arbitrary(x) == x \notin {"double", "add_ten", "filter", "switch", "lorawan"}

\* What a middleware object does: "log" is SimpleLoggingMiddleware of
\* main.py (returns what it is given); the before hook of "m1" and "own"
\* may also raise; the hooks of "m2" and "m3" may do anything the interface
\* allows.
MayRaise(mw) == mw \in {"m1", "m2", "m3", "own"}
MayReplace(mw) == mw \in {"m2", "m3"}

RECURSIVE FilterLoop(_, _)
\* The loop over self._event_filters; res[k] is what the k-th predicate does
\* with the event: "true", "false" or "raise".
FilterLoop(res, k) ==
    IF k > Len(res) THEN "true"
    ELSE IF res[k] = "true" THEN FilterLoop(res, k + 1)
    ELSE res[k]

\* A slip: the DISABLED check is missing.
ShouldProcessEventNoDisabled(n, res) == FilterLoop(res, 1)

\* BaseNode._should_process_event ("raise": a predicate raised)
ShouldProcessEvent(n, res) ==
    IF state[n] = "DISABLED" THEN "false" ELSE FilterLoop(res, 1)

\* Some predicate was called and returned false.
FilterReturnedFalse(res) ==
    \E k \in 1..Len(res) :
        res[k] = "false" /\ \A j \in 1..(k - 1) : res[j] = "true"

\* One call made by the try block of update: hook i ("before", "after"),
\* the can_handle loop ("select", i: the processor chosen, 0: none, out: the
\* answer of each processor) or processor i ("process"), with its first
\* argument, the result argument of an after hook, what it returned (an
\* event, None, or Raise) and the HTTP requests it posted.
Raise == -1
Call(hook, i, arg, res, out, posts) ==
    [hook |-> hook, i |-> i, arg |-> arg, res |-> res, out |-> out,
     posts |-> posts]
Logged(f, c) == [f EXCEPT !.log = Append(@, c)]

Frame(n, e, from, st0, m0) ==
    [node |-> n, event |-> e, from |-> from, processed |-> e, result |-> 0,
     pc |-> "before", i |-> 1, h |-> 0, pending |-> {}, after |-> "none",
     failed |-> FALSE, msg |-> "", notified |-> FALSE, emitted |-> 0,
     targets |-> {}, deliv |-> <<>>, state0 |-> st0, errors0 |-> m0.errors,
     reentered |-> FALSE, procnull |-> FALSE, substituted |-> FALSE,
     sent0 |-> m0.events_sent, hist0 |-> event_history[n], log |-> <<>>]

\* The record of a call that ran its pipeline and has returned.
Returned(f) ==
    [kind |-> "return", accepted |-> TRUE, node |-> f.node, event |-> f.event,
     from |-> f.from, state0 |-> f.state0, errors0 |-> f.errors0,
     rejected |-> FALSE, failed |-> f.failed, msg |-> f.msg,
     notified |-> f.notified, emitted |-> f.emitted, targets |-> f.targets,
     deliv |-> f.deliv, reentered |-> f.reentered, procnull |-> f.procnull,
     substituted |-> f.substituted, sent0 |-> f.sent0, hist0 |-> f.hist0,
     log |-> f.log]

\* The record of a call that was dropped (or whose filter raised).
Dropped(n, e, from, d, res, h) ==
    [kind |-> IF d = "raise" THEN "raise" ELSE "return", accepted |-> FALSE,
     node |-> n, event |-> e, from |-> from, state0 |-> state[n],
     errors0 |-> metrics[n].errors,
     rejected |-> state[n] # "DISABLED" /\ FilterReturnedFalse(res),
     failed |-> FALSE, msg |-> "", notified |-> FALSE, emitted |-> 0,
     targets |-> {}, deliv |-> <<>>, reentered |-> FALSE,
     procnull |-> FALSE, substituted |-> FALSE,
     sent0 |-> metrics[n].events_sent, hist0 |-> event_history[n],
     log |-> <<>>,
     pre |-> [state |-> state, metrics |-> metrics,
              event_history |-> event_history, heap |-> h, calls |-> calls,
              clock |-> clock, received |-> received]]

\* The caller of trigger_event sees the call return, raise, or still run.
Trigger(exc) == [op |-> "trigger_event", arg |-> NoNode, exc |-> exc]

\* BaseNode.update(e) on node n, called by `from` (NoNode: by
\* trigger_event), up to its first await. h is the heap at the call and rest
\* the call chain below this call.
Update(n, e, from, res, h, rest) ==
    LET d == ShouldProcessEvent(n, res) IN
    /\ received' = [received EXCEPT ![n] =
            Append(@, [ev |-> e, from |-> from, src |-> h[e].source_id,
                       type |-> h[e].type, data |-> h[e].data])]
    /\ IF d = "true"
       THEN /\ state' = [state EXCEPT ![n] = "PROCESSING"]
            /\ metrics' = [metrics EXCEPT ![n].events_processed = @ + 1]
            /\ stack' = Append(
                    [k \in DOMAIN rest |->
                        IF rest[k].node = n
                        THEN [rest[k] EXCEPT !.reentered = TRUE]
                        ELSE rest[k]],
                    Frame(n, e, from, state[n], metrics[n]))
            /\ ret' = NoRet
       ELSE /\ UNCHANGED <<state, metrics>>
            /\ stack' = rest
            /\ ret' = Dropped(n, e, from, d, res, h)

\* The sets of observers a notify_observers call of node n may go through
\* for the event ev. BaseNode, and the SwitchNode of backend/app, which does
\* not override notify_observers: all observers. The SwitchNode of dna_core,
\* for a ROUTING_DECISION with a truthy target_node: the first observer of
\* the iteration whose id is the target, or none; for every other event,
\* all observers.
NotifyTargets(n, ev) ==
    IF /\ node_class[n] = "SwitchNode"
       /\ ev.type = "ROUTING_DECISION"
       /\ ev.data.target_node # NoNode
    THEN LET c == {o \in observers[n] : id[o] = ev.data.target_node}
         IN IF c = {} THEN {{}} ELSE {{o} : o \in c}
    ELSE {observers[n]}

\* notify_observers(e) of frame f's node up to its first delivery; h and m
\* are the heap and the metrics at the call.
notify_observers(f, e, h, m, after) ==
    LET n == f.node IN
    /\ Announce(n, e, h, m)
    /\ \E tg \in NotifyTargets(n, h[e]) :
          stack' = SetTop([f EXCEPT !.pc = "notify", !.pending = tg,
                                   !.after = after, !.notified = TRUE,
                                   !.emitted = e, !.targets = tg])

\* The except branch of BaseNode.update: an exception with message msg was
\* raised in the try block of frame f.
Except(f, msg) ==
    LET n == f.node
        e == Len(heap) + 1
    IN /\ state' = [state EXCEPT ![n] = "ERROR"]
       /\ notify_observers([f EXCEPT !.failed = TRUE, !.msg = msg], e,
              Append(heap, create_error_event(msg, heap[f.event], id[n])),
              [metrics EXCEPT ![n].errors = @ + 1], "return")

\* A slip: the state is left as it is when the pipeline completes.
FinishNoIdle(f) ==
    /\ UNCHANGED state
    /\ stack' = Rest
    /\ ret' = Returned(f)
    /\ outcome' = IF Len(stack) = 1 THEN Trigger("none") ELSE outcome

\* self.state = NodeState.IDLE, and update returns.
Finish(f) ==
    /\ state' = [state EXCEPT ![f.node] = "IDLE"]
    /\ stack' = Rest
    /\ ret' = Returned(f)
    /\ outcome' = IF Len(stack) = 1 THEN Trigger("none") ELSE outcome

\* update returns at the end of the except branch.
FinishExcept(f) ==
    /\ UNCHANGED state
    /\ stack' = Rest
    /\ ret' = Returned(f)
    /\ outcome' = IF Len(stack) = 1 THEN Trigger("none") ELSE outcome

(***************************************************************************)
(* LoRaWANDownlinkNode: LoRaWANValidationMiddleware, LoRaWANLoggingMiddle- *)
(* ware and LoRaWANProcessor                                               *)
(***************************************************************************)

LORAWAN_MAX_PAYLOAD == 242
DEFAULT_RETRIES == 3

\* A payload string of n characters: plain text, or hexadecimal digits with
\* or without the prefix 0x (n counts the prefix).
PlainText(n) == [kind |-> "str", chars |-> n, hex |-> FALSE, prefix |-> FALSE]
HexText(n, prefixed) ==
    [kind |-> "str", chars |-> n, hex |-> TRUE, prefix |-> prefixed]

\* len(_get_payload_bytes(payload)): a hex string with an even number of
\* digits is decoded, any other string is encoded as UTF-8.
GetPayloadBytes(payload) ==
    LET digits == IF payload.prefix THEN payload.chars - 2 ELSE payload.chars
    IN IF payload.chars = 0 THEN 0
       ELSE IF payload.hex /\ digits % 2 = 0 THEN digits \div 2
       ELSE payload.chars

\* The merged configuration of a LoRaWANDownlinkNode.
LorawanConfig(api_url, api_key, device_id, payload) ==
    [api_url |-> api_url, api_key |-> api_key, device_id |-> device_id,
     payload |-> payload, retries |-> DEFAULT_RETRIES]

\* isinstance(event.data, dict) and "payload" in event.data
HasPayload(data) ==
    /\ data.kind = "dict"
    /\ "value" \in DOMAIN data
    /\ "payload" \in DOMAIN data.value

\* The payload of a downlink: that of the event, else the configured one.
DownlinkPayload(cfg, data) ==
    IF HasPayload(data) THEN data.value.payload ELSE cfg.payload

\* The errors list of LoRaWANValidationMiddleware.before_process.
ValidationErrors(cfg, data) ==
    (IF cfg.api_url = "" THEN {"api_url"} ELSE {})
    \cup (IF cfg.api_key = "" THEN {"api_key"} ELSE {})
    \cup (IF cfg.device_id = "" THEN {"device_id"} ELSE {})
    \cup (IF GetPayloadBytes(DownlinkPayload(cfg, data)) > LORAWAN_MAX_PAYLOAD
          THEN {"payload_size"} ELSE {})

\* The event before_process returns when the errors list is not empty.
ValidationErrorEvent(errors, event, node_id) ==
    WithMetadata(
        GraphEvent("ERROR",
                   [kind |-> "dict", error |-> errors,
                    validation_errors |-> errors,
                    original_request |-> event.data], node_id),
        DictMerge({Item("status", "validation_error")}, event.metadata))

\* The middleware that validates; it rejects the event ev of node n.
Validates(mw) == mw = "lorawan_validation"
Rejects(mw, n, ev) == Validates(mw) /\ ValidationErrors(config[n], ev.data) # {}

\* LoRaWANProcessor._encode_payload
EncodePayload(payload) ==
    [kind |-> "base64", bytes |-> GetPayloadBytes(payload)]

\* What LoRaWANProcessor.process returns after k session.post calls, the
\* last of which succeeded (ok) or failed like the ones before it.
LorawanResult(cfg, event, node_id, k, ok) ==
    IF ok
    THEN WithMetadata(
             GraphEvent("COMPUTATION_RESULT",
                        [kind |-> "dict", status |-> "ok",
                         device_id |-> cfg.device_id,
                         payload_sent |->
                             EncodePayload(DownlinkPayload(cfg, event.data)),
                         attempt |-> k],
                        event.source_id),
             DictMerge({Item("status", "ok"), Item("provider", "TTN")},
                       event.metadata))
    ELSE WithMetadata(
             GraphEvent("ERROR",
                        [kind |-> "dict", error |-> "request failed",
                         original_request |-> event.data,
                         device_id |-> cfg.device_id], node_id),
             DictMerge({Item("status", "error"), Item("provider", "TTN")},
                       event.metadata))

\* A slip: an ERROR-typed event returned by a hook ends the before chain.
NextMiddlewareStopOnError(f, returned) ==
    IF returned.type = "ERROR" THEN Len(middleware[f.node]) + 1 ELSE f.i + 1

\* for middleware in self._middleware: the hook that runs after hook f.i
\* has returned an event.
NextMiddleware(f, returned) == f.i + 1

\* await middleware.before_process(processed_event, self.id)
before_process ==
    /\ stack # <<>>
    /\ top.pc = "before"
    /\ top.i <= Len(middleware[top.node])
    /\ LET f == top
           mw == middleware[f.node][f.i]
           call(out) == Call("before", f.i, f.processed, 0, out, 0)
       IN /\ calls' = [calls EXCEPT ![f.node].before = @ + 1]
          /\ \/ \* the hook returns the event it was given
                /\ ~Rejects(mw, f.node, heap[f.processed])
                /\ stack' = SetTop(Logged(
                       [f EXCEPT !.i = NextMiddleware(f, heap[f.processed])],
                       call(f.processed)))
                /\ UNCHANGED <<heap, state, metrics, event_history, fanned_out,
                               clock>>
             \/ \* the hook returns another event
                /\ MayReplace(mw)
                /\ Len(heap) < MaxEvents
                /\ heap' = Append(heap,
                       GraphEvent(heap[f.processed].type, Num(7), ""))
                /\ stack' = SetTop(Logged(
                       [f EXCEPT !.i = NextMiddleware(f, heap'[Len(heap')]),
                                 !.processed = Len(heap) + 1],
                       call(Len(heap) + 1)))
                /\ UNCHANGED <<state, metrics, event_history, fanned_out,
                               clock>>
             \/ \* LoRaWANValidationMiddleware: the validation fails
                /\ Rejects(mw, f.node, heap[f.processed])
                /\ Len(heap) < MaxEvents
                /\ heap' = Append(heap, ValidationErrorEvent(
                       ValidationErrors(config[f.node], heap[f.processed].data),
                       heap[f.processed], id[f.node]))
                /\ stack' = SetTop(Logged(
                       [f EXCEPT !.i = NextMiddleware(f, heap'[Len(heap')]),
                                 !.processed = Len(heap) + 1],
                       call(Len(heap) + 1)))
                /\ UNCHANGED <<state, metrics, event_history, fanned_out,
                               clock>>
             \/ \* the hook raises
                /\ MayRaise(mw)
                /\ Len(heap) < MaxEvents
                /\ Except(Logged(f, call(Raise)), "before_process failed")
    /\ ret' = NoRet
    /\ UNCHANGED <<fixed, triggers, received, outcome>>

\* processor.can_handle(processed_event), for the classes of main.py;
\* b is the answer of any other processor.
can_handle(p, ev, b) ==
    CASE p = "double" -> ev.type = "DATA_CHANGE" /\ IsNumber(ev.data)
      [] p = "add_ten" -> IsNumber(ev.data)
      [] p = "filter" -> ev.type = "COMPUTATION_RESULT"
      [] p = "switch" -> TRUE
      [] p = "lorawan" -> ev.type \in {"DATA_CHANGE", "CUSTOM"}
      [] OTHER -> b

\* A slip: the loop has no break, the last processor that can handle the
\* event is the one whose result is kept.
LastHandler(ch) ==
    IF \E k \in DOMAIN ch : ch[k]
    THEN CHOOSE k \in DOMAIN ch : ch[k] /\ \A j \in DOMAIN ch : j > k => ~ch[j]
    ELSE 0

\* The loop over self._processors up to the break: the first processor
\* whose can_handle is true (0: none).
FirstHandler(ch) ==
    IF \E k \in DOMAIN ch : ch[k]
    THEN CHOOSE k \in DOMAIN ch : ch[k] /\ \A j \in DOMAIN ch : j < k => ~ch[j]
    ELSE 0

\* The before chain is done: select the processor.
select_processor ==
    /\ stack # <<>>
    /\ top.pc = "before"
    /\ top.i > Len(middleware[top.node])
    /\ LET f == top
           ps == processors[f.node]
       IN \E b \in [DOMAIN ps -> BOOLEAN] :
            LET ch == [k \in DOMAIN ps |->
                          can_handle(ps[k], heap[f.processed], b[k])]
                k == FirstHandler(ch)
            IN stack' = SetTop(Logged(
                       IF k = 0
                       THEN [f EXCEPT !.pc = "after", !.i = 1, !.result = 0]
                       ELSE [f EXCEPT !.pc = "process", !.h = k],
                       Call("select", k, f.processed, 0, ch, 0)))
    /\ ret' = NoRet
    /\ UNCHANGED <<fixed, triggers, received, outcome, heap, state, metrics,
                   event_history, fanned_out, clock, calls>>

\* What FilterProcessor.process returns: its input event, or None.
FilterResult(ev, e) == IF ev.data.value % 8 # 0 THEN 0 ELSE e

(***************************************************************************)
(* SwitchProcessor                                                         *)
(***************************************************************************)

\* The conditions of the rules: {">": [{"var": "value"}, c]},
\* {"<=": [{"var": "value"}, c]}, one whose evaluation raises (an operation
\* the evaluator does not know), and a rule without a condition.
Gt(c) == [op |-> ">", c |-> c]
Le(c) == [op |-> "<=", c |-> c]
Raises == [op |-> "raise", c |-> 0]
NoCondition == [op |-> "none", c |-> 0]

\* A rule group {name: {"condition": condition, "then": then}}, and an entry
\* of the rules list that is not a mapping.
Rule(name, condition, then) ==
    [kind |-> "rule", name |-> name, condition |-> condition, then |-> then]
BadGroup == [kind |-> "bad"]

\* jsonLogic(condition, data): "true", "false" (also when the variable is
\* absent from the data) or "raise".
JsonLogic(condition, data) ==
    CASE condition.op = "raise" -> "raise"
      [] condition.op = ">" ->
            IF data.kind = "obj" /\ data.value > condition.c
            THEN "true" ELSE "false"
      [] condition.op = "<=" ->
            IF data.kind = "obj" /\ data.value <= condition.c
            THEN "true" ELSE "false"
      [] OTHER -> "false"

\* SwitchProcessor._evaluate_single_rule: an exception of the evaluation is
\* caught and the rule counts as not matching.
EvaluateSingleRule(data, rule_config) ==
    IF rule_config.condition = NoCondition THEN FALSE
    ELSE JsonLogic(rule_config.condition, data) = "true"

NoMatch == [kind |-> "none"]

RECURSIVE EvaluateRulesLastMatch(_, _, _)
\* A slip: a later matching rule overrides an earlier one.
EvaluateRulesLastMatch(rules, data, k) ==
    IF k > Len(rules) THEN NoMatch
    ELSE IF rules[k].kind = "bad" THEN [kind |-> "raise"]
    ELSE LET later == EvaluateRulesLastMatch(rules, data, k + 1) IN
         IF later.kind # "none" THEN later
         ELSE IF EvaluateSingleRule(data, rules[k])
         THEN [kind |-> "match", rule_name |-> rules[k].name,
               target |-> rules[k].then]
         ELSE NoMatch

RECURSIVE EvaluateRules(_, _, _)
\* SwitchProcessor._evaluate_rules, from the k-th entry of the rules list:
\* the first rule that matches, NoMatch, or "raise" when an entry is not a
\* mapping (rule_group.items() fails outside the inner try).
EvaluateRules(rules, data, k) ==
    IF k > Len(rules) THEN NoMatch
    ELSE IF rules[k].kind = "bad" THEN [kind |-> "raise"]
    ELSE IF EvaluateSingleRule(data, rules[k])
    THEN [kind |-> "match", rule_name |-> rules[k].name,
          target |-> rules[k].then]
    ELSE EvaluateRules(rules, data, k + 1)

\* The data of a ROUTING_DECISION event.
RoutingData(original_data, target_node, rule_name, status) ==
    [kind |-> "routing", original_data |-> original_data,
     target_node |-> target_node, rule_name |-> rule_name, status |-> status]

\* SwitchProcessor._create_routing_event
CreateRoutingEvent(original_event, target, rule_name, node_id) ==
    GraphEvent("ROUTING_DECISION",
               RoutingData(original_event.data, target, rule_name, NoNode),
               node_id)

\* SwitchProcessor._create_no_match_event
CreateNoMatchEvent(original_event, node_id) ==
    GraphEvent("ROUTING_DECISION",
               RoutingData(original_event.data, NoNode, NoNode, "no_match"),
               node_id)

\* SwitchProcessor._create_error_event
CreateSwitchErrorEvent(error_message, original_event, node_id) ==
    GraphEvent("ERROR",
               [kind |-> "dict", error |-> error_message,
                original_data |-> original_event.data], node_id)

\* SwitchProcessor.process, for the processor of a node with configuration
\* cfg: the event it returns.
SwitchProcess(cfg, event, node_id) ==
    LET matched_rule == EvaluateRules(cfg.rules, event.data, 1) IN
    CASE matched_rule.kind = "raise" ->
            CreateSwitchErrorEvent("JsonLogic processing error", event,
                                   node_id)
      [] matched_rule.kind = "match" ->
            CreateRoutingEvent(event, matched_rule.target,
                               matched_rule.rule_name, node_id)
      [] matched_rule.kind = "none" /\ cfg.default_target # NoNode ->
            CreateRoutingEvent(event, cfg.default_target, NoNode, node_id)
      [] OTHER -> CreateNoMatchEvent(event, node_id)

\* result_event = await processor.process(processed_event, context)
process ==
    /\ stack # <<>>
    /\ top.pc = "process"
    /\ LET f == top
           n == f.node
           p == processors[n][f.h]
           ev == heap[f.processed]
           posted(r, k) ==
               SetTop(Logged([f EXCEPT !.pc = "after", !.i = 1, !.result = r,
                                       !.procnull = (r = 0)],
                             Call("process", f.h, f.processed, 0, r, k)))
           done(r) == posted(r, 0)
       IN /\ calls' = [calls EXCEPT ![n].process = @ + 1]
          /\ \/ \* DoubleProcessor, AddTenProcessor: a new result event
                /\ p \in {"double", "add_ten"}
                /\ Len(heap) < MaxEvents
                /\ heap' = Append(heap, GraphEvent("COMPUTATION_RESULT",
                       Num(IF p = "double" THEN ev.data.value * 2
                           ELSE ev.data.value + 10), id[n]))
                /\ stack' = done(Len(heap) + 1)
                /\ UNCHANGED <<state, metrics, event_history, fanned_out,
                               clock>>
             \/ \* FilterProcessor: the input event itself, or None
                /\ p = "filter"
                /\ IsNumber(ev.data)
                /\ stack' = done(FilterResult(ev, f.processed))
                /\ UNCHANGED <<heap, state, metrics, event_history, fanned_out,
                               clock>>
             \/ \* SwitchProcessor: a routing decision or an ERROR event
                /\ p = "switch"
                /\ Len(heap) < MaxEvents
                /\ heap' = Append(heap, SwitchProcess(config[n], ev, id[n]))
                /\ stack' = done(Len(heap) + 1)
                /\ UNCHANGED <<state, metrics, event_history, fanned_out,
                               clock>>
             \/ \* LoRaWANProcessor: the k-th request succeeds, or all fail
                /\ p = "lorawan"
                /\ Len(heap) < MaxEvents
                /\ \E k \in 0..config[n].retries, ok \in BOOLEAN :
                      /\ ok => k >= 1
                      /\ ~ok => k = config[n].retries
                      /\ heap' = Append(heap,
                             LorawanResult(config[n], ev, id[n], k, ok))
                      /\ stack' = posted(Len(heap) + 1, k)
                /\ UNCHANGED <<state, metrics, event_history, fanned_out,
                               clock>>
             \/ \* any processor: returns None
                /\ Arbitrary(p)
                /\ stack' = done(0)
                /\ UNCHANGED <<heap, state, metrics, event_history, fanned_out,
                               clock>>
             \/ \* any processor: returns its input event
                /\ Arbitrary(p)
                /\ stack' = done(f.processed)
                /\ UNCHANGED <<heap, state, metrics, event_history, fanned_out,
                               clock>>
             \/ \* any processor: returns a new event
                /\ Arbitrary(p)
                /\ Len(heap) < MaxEvents
                /\ heap' = Append(heap,
                       GraphEvent("COMPUTATION_RESULT", Num(0), id[n]))
                /\ stack' = done(Len(heap) + 1)
                /\ UNCHANGED <<state, metrics, event_history, fanned_out,
                               clock>>
             \/ \* the processor raises (FilterProcessor: data % 8 on a dict)
                /\ Arbitrary(p) \/ (p = "filter" /\ ~IsNumber(ev.data))
                /\ Len(heap) < MaxEvents
                /\ Except(Logged(f, Call("process", f.h, f.processed, 0,
                                         Raise, 0)),
                          "process failed")
    /\ ret' = NoRet
    /\ UNCHANGED <<fixed, triggers, received, outcome>>

\* await middleware.after_process(processed_event, result_event, self.id)
after_process ==
    /\ stack # <<>>
    /\ top.pc = "after"
    /\ top.i <= Len(middleware[top.node])
    /\ LET f == top
           mw == middleware[f.node][f.i]
           call(out) == Call("after", f.i, f.processed, f.result, out, 0)
       IN /\ calls' = [calls EXCEPT ![f.node].after = @ + 1]
          /\ \/ \* the hook returns the result it was given
                /\ stack' = SetTop(Logged([f EXCEPT !.i = @ + 1],
                                          call(f.result)))
                /\ UNCHANGED <<heap, state, metrics, event_history, fanned_out,
                               clock>>
             \/ \* the hook returns None
                /\ MayReplace(mw)
                /\ f.result # 0
                /\ stack' = SetTop(Logged([f EXCEPT !.i = @ + 1, !.result = 0,
                                                    !.substituted = TRUE],
                                          call(0)))
                /\ UNCHANGED <<heap, state, metrics, event_history, fanned_out,
                               clock>>
             \/ \* the hook returns another event
                /\ MayReplace(mw)
                /\ Len(heap) < MaxEvents
                /\ heap' = Append(heap, GraphEvent("NOTIFICATION", Num(9), ""))
                /\ stack' = SetTop(Logged([f EXCEPT !.i = @ + 1,
                                                    !.result = Len(heap) + 1,
                                                    !.substituted = TRUE],
                                          call(Len(heap) + 1)))
                /\ UNCHANGED <<state, metrics, event_history, fanned_out,
                               clock>>
             \/ \* the hook raises
                /\ MayReplace(mw)
                /\ Len(heap) < MaxEvents
                /\ Except(Logged(f, call(Raise)), "after_process failed")
    /\ ret' = NoRet
    /\ UNCHANGED <<fixed, triggers, received, outcome>>

\* A slip: when there is no result the processed event is fanned out.
EmitProcessedWhenNull ==
    /\ stack # <<>>
    /\ top.pc = "after"
    /\ top.i > Len(middleware[top.node])
    /\ notify_observers(top,
           IF top.result # 0 THEN top.result ELSE top.processed,
           heap, metrics, "idle")
    /\ ret' = NoRet
    /\ UNCHANGED <<state, outcome>>
    /\ UNCHANGED <<fixed, triggers, received, calls>>

\* The after chain is done: fan the result out, or finish.
emit ==
    /\ stack # <<>>
    /\ top.pc = "after"
    /\ top.i > Len(middleware[top.node])
    /\ IF top.result # 0
       THEN /\ notify_observers(top, top.result, heap, metrics, "idle")
            /\ ret' = NoRet
            /\ UNCHANGED <<state, outcome>>
       ELSE /\ Finish(top)
            /\ UNCHANGED <<heap, metrics, event_history, fanned_out, clock>>
    /\ UNCHANGED <<fixed, triggers, received, calls>>

\* A slip: the first observer that raises ends the fan-out.
PendingAfterStopOnRaise(pending, o, d) ==
    IF d = "raise" THEN {} ELSE pending \ {o}

\* The observers still to be notified after o's update returned or raised
\* (d: what o's filters did); an exception is logged and swallowed.
PendingAfter(pending, o, d) == pending \ {o}

\* await observer.update(event), for the next observer of the loop. The
\* iteration order of the set is not determined by the program.
deliver(o, res) ==
    /\ stack # <<>>
    /\ top.pc = "notify"
    /\ o \in top.pending
    /\ res \in [1..Len(event_filters[o]) -> {"true", "false", "raise"}]
    /\ LET f == top
           d == ShouldProcessEvent(o, res)
       IN /\ d = "true" => /\ Len(stack) < MaxDepth
                         /\ Running(o) <= MaxReentry
          /\ Update(o, f.emitted, f.node, res, heap,
                    SetTop([f EXCEPT
                        !.pending = PendingAfter(f.pending, o, d),
                        !.deliv = Append(@, [to |-> o, ev |-> f.emitted,
                                             out |-> d])]))
    /\ UNCHANGED <<fixed, triggers, heap, event_history, fanned_out, clock,
                   calls, outcome>>

\* Every observer has been notified: notify_observers returns.
notify_done ==
    /\ stack # <<>>
    /\ top.pc = "notify"
    /\ top.pending = {}
    /\ IF top.after = "idle" THEN Finish(top) ELSE FinishExcept(top)
    /\ UNCHANGED <<fixed, triggers, heap, metrics, event_history, fanned_out,
                   clock,
                   received, calls>>

\* A slip: the registry is indexed (self._nodes[node_id]) instead of asked,
\* so an unknown id raises KeyError.
TriggerEventKeyError(node_id, type, data, res) ==
    /\ stack = <<>>
    /\ triggers < MaxTriggers
    /\ Len(heap) < MaxEvents
    /\ triggers' = triggers + 1
    /\ heap' = Append(heap, GraphEvent(type, data, ""))
    /\ LET n == nodes[node_id]
           e == Len(heap) + 1
       IN IF n = NoNode
          THEN /\ outcome' = Trigger("Exception")
               /\ ret' = NoRet
               /\ UNCHANGED <<state, metrics, stack, received>>
          ELSE /\ res \in [1..Len(event_filters[n]) ->
                                {"true", "false", "raise"}]
               /\ Update(n, e, NoNode, res, heap', <<>>)
               /\ outcome' = CASE ShouldProcessEvent(n, res) = "raise" ->
                                    Trigger("Exception")
                               [] ShouldProcessEvent(n, res) = "false" ->
                                    Trigger("none")
                               [] OTHER -> Trigger("running")
    /\ UNCHANGED <<fixed, event_history, fanned_out, clock, calls>>

\* ObserverGraph.trigger_event(node_id, event), with a fresh event of the
\* given type and payload; the call runs until update's first await.
trigger_event(node_id, type, data, res) ==
    /\ stack = <<>>
    /\ triggers < MaxTriggers + (IF parked = <<>> THEN 0 ELSE MaxOverlapping)
    /\ Len(heap) < MaxEvents
    /\ triggers' = triggers + 1
    /\ heap' = Append(heap, GraphEvent(type, data, ""))
    /\ LET n == nodes[node_id]
           e == Len(heap) + 1
       IN IF n = NoNode
          THEN /\ outcome' = Trigger("none")
               /\ ret' = NoRet
               /\ UNCHANGED <<state, metrics, stack, received>>
          ELSE /\ res \in [1..Len(event_filters[n]) ->
                                {"true", "false", "raise"}]
               /\ Update(n, e, NoNode, res, heap', <<>>)
               /\ outcome' = CASE ShouldProcessEvent(n, res) = "raise" ->
                                    Trigger("Exception")
                               [] ShouldProcessEvent(n, res) = "false" ->
                                    Trigger("none")
                               [] OTHER -> Trigger("running")
    /\ UNCHANGED <<fixed, event_history, fanned_out, clock, calls>>

\* The host disables a node: node.state = NodeState.DISABLED.
disable(n) ==
    /\ stack = <<>>
    /\ triggers < MaxTriggers
    /\ Cardinality({m \in Node : state[m] = "DISABLED"}) < MaxDisabled
    /\ state[n] # "DISABLED"
    /\ state' = [state EXCEPT ![n] = "DISABLED"]
    /\ ret' = NoRet
    /\ UNCHANGED <<fixed, triggers, heap, stack, clock, received, calls,
                   metrics, event_history, fanned_out, outcome>>

(***************************************************************************)
(* Spec: one graph, built by add_node, add_edge and add_global_middleware, *)
(* and events triggered on it. The graph is either one of two graphs of    *)
(* the processors of main.py, or a small graph of arbitrary nodes.         *)
(***************************************************************************)

\* At most this many edges in a graph of arbitrary nodes.
MaxEdges == 2

PipeNodes == {"n1", "n2", "n3"}

\* double -> {add_ten, add_ten2} -> result
Diamond == {<<"n1", "n2">>, <<"n1", "n3">>, <<"n2", "n4">>, <<"n3", "n4">>}

\* double -> {filter, result}
FilterFan == {<<"n1", "n2">>, <<"n1", "n3">>}

\* The state add_node, add_edge and add_global_middleware(mw) leave behind
\* for the given edges.
Built(edges, mw) ==
    /\ id = [n \in Node |-> CASE n = "n1" -> "a" [] n = "n2" -> "b"
                              [] n = "n3" -> "c" [] OTHER -> "d"]
    /\ nodes = [i \in NodeIds |-> CASE i = "a" -> "n1" [] i = "b" -> "n2"
                                    [] i = "c" -> "n3" [] i = "d" -> "n4"
                                    [] OTHER -> NoNode]
    /\ global_middleware = <<mw>>
    /\ middleware = [n \in Node |-> <<mw>>]
    /\ outgoing_edges = [n \in Node |-> {t \in Node : <<n, t>> \in edges}]
    /\ incoming_edges = [n \in Node |-> {s \in Node : <<s, n>> \in edges}]
    /\ observers = [n \in Node |-> {t \in Node : <<n, t>> \in edges}]
    /\ state = [n \in Node |-> "IDLE"]
    /\ event_history = [n \in Node |-> <<>>]
    /\ metrics = [n \in Node |-> NewMetrics]
    /\ fanned_out = [n \in Node |-> <<>>]
    /\ InitRun
    /\ outcome = OK
    /\ rt = RtOff
    /\ NoIo

\* The nodes of main.py: DoubleNode, AddTenNode, FilterNode, ResultNode,
\* with SimpleLoggingMiddleware as global middleware and no event filter.
InitMain ==
    \/ /\ Built(Diamond, "log")
       /\ processors = [n \in Node |->
              CASE n = "n1" -> <<"double">> [] n = "n2" -> <<"add_ten">>
                [] n = "n3" -> <<"add_ten">> [] OTHER -> <<>>]
       /\ event_filters = [n \in Node |-> <<>>]
       /\ node_class = [n \in Node |-> "BaseNode"]
       /\ config = [n \in Node |-> NoConfig]
    \/ /\ Built(FilterFan, "log")
       /\ processors = [n \in Node |->
              CASE n = "n1" -> <<"double">> [] n = "n2" -> <<"filter">>
                [] OTHER -> <<>>]
       /\ event_filters = [n \in Node |-> <<>>]
       /\ node_class = [n \in Node |-> "BaseNode"]
       /\ config = [n \in Node |-> NoConfig]

\* Nodes with one arbitrary processor, one arbitrary event filter and the
\* middleware "m1" each, connected by at most MaxEdges edges.
InitArbitrary ==
    \E edges \in SUBSET (PipeNodes \X PipeNodes) :
        /\ Cardinality(edges) <= MaxEdges
        /\ Built(edges, "m1")
        /\ processors = [n \in Node |-> <<"p">>]
        /\ event_filters = [n \in Node |-> <<"f">>]
        /\ node_class = [n \in Node |-> "BaseNode"]
        /\ config = [n \in Node |-> NoConfig]

\* As InitArbitrary, with the middleware "m2", on one node or a pair.
InitPair ==
    \E edges \in SUBSET {<<"n1", "n2">>} :
        /\ Built(edges, "m2")
        /\ processors = [n \in Node |-> <<"p">>]
        /\ event_filters = [n \in Node |-> <<"f">>]
        /\ node_class = [n \in Node |-> "BaseNode"]
        /\ config = [n \in Node |-> NoConfig]

\* switch -> {big, small, other}: the ids of the observers are "b", "c"
\* and "d".
SwitchFan == {<<"n1", "n2">>, <<"n1", "n3">>, <<"n1", "n4">>}

\* rules r1 (value > 5 -> big) and r2 (value <= 5 -> small)
ExampleConfig ==
    [rules |-> <<Rule("r1", Gt(5), "b"), Rule("r2", Le(5), "c")>>,
     default_target |-> NoNode]

\* The configurations of the switch: the example; two rules that overlap
\* and a default target; a rule whose evaluation raises; a rules list with
\* an entry that is not a mapping; a rule without condition and a target
\* that names no observer.
SwitchConfigs ==
    {ExampleConfig,
     [rules |-> <<Rule("r1", Gt(5), "b"), Rule("r3", Gt(2), "c")>>,
      default_target |-> "d"],
     [rules |-> <<Rule("r0", Raises, "b"), Rule("r1", Gt(5), "c")>>,
      default_target |-> NoNode],
     [rules |-> <<BadGroup>>, default_target |-> NoNode],
     [rules |-> <<Rule("r4", NoCondition, "b"), Rule("r1", Gt(5), "zz")>>,
      default_target |-> NoNode]}

\* A SwitchNode (of either package) with three plain observers.
InitSwitch ==
    \E c \in {"SwitchNode", "app.SwitchNode"}, cfg \in SwitchConfigs :
        /\ Built(SwitchFan, "log")
        /\ processors = [n \in Node |->
               IF n = "n1" THEN <<"switch">> ELSE <<>>]
        /\ event_filters = [n \in Node |-> <<>>]
        /\ node_class = [n \in Node |-> IF n = "n1" THEN c ELSE "BaseNode"]
        /\ config = [n \in Node |-> IF n = "n1" THEN cfg ELSE NoConfig]

Init == InitMain \/ InitArbitrary \/ InitPair \/ InitSwitch

\* The payloads a host sends: the numbers 4 and 5 exercise both branches
\* of FilterProcessor; arbitrary processors do not look at the payload.
Inputs ==
    CASE processors["n1"] = <<"switch">> -> {Obj(7), Obj(3), Obj(1)}
      [] global_middleware = <<"log">> -> {Num(4), Num(5)}
      [] OTHER -> {Num(5)}

\* What the filters of a node may do with an event.
FilterResults ==
    [1..1 -> {"true", "false", "raise"}] \cup {<<>>}

Next ==
    \/ \E n \in PipeNodes : disable(n)
    \/ \E i \in {"a", "zz"}, data \in Inputs :
         \E res \in FilterResults :
            trigger_event(i, "DATA_CHANGE", data, res)
    \/ before_process
    \/ select_processor
    \/ process
    \/ after_process
    \/ emit
    \/ \E o \in Node :
         \E res \in FilterResults :
            deliver(o, res)
    \/ notify_done

Spec == Init /\ [][Next]_vars

(***************************************************************************)
(* SpecChain: a node with its own middleware and processors and one        *)
(* observer. The node is either a BaseNode with two arbitrary middleware   *)
(* and two arbitrary processors, or a LoRaWANDownlinkNode.                 *)
(***************************************************************************)

\* node.add_middleware(...), node.add_processor(...) on n1 (class cls,
\* configuration cfg), and add_edge(n1, n2).
BuiltChain(cls, cfg, mws, ps) ==
    /\ id = [n \in Node |-> CASE n = "n1" -> "a" [] n = "n2" -> "b"
                              [] n = "n3" -> "c" [] OTHER -> "d"]
    /\ nodes = [i \in NodeIds |-> CASE i = "a" -> "n1" [] i = "b" -> "n2"
                                    [] OTHER -> NoNode]
    /\ global_middleware = <<>>
    /\ node_class = [n \in Node |-> IF n = "n1" THEN cls ELSE "BaseNode"]
    /\ config = [n \in Node |-> IF n = "n1" THEN cfg ELSE NoConfig]
    /\ middleware = [n \in Node |-> IF n = "n1" THEN mws ELSE <<>>]
    /\ processors = [n \in Node |-> IF n = "n1" THEN ps ELSE <<>>]
    /\ event_filters = [n \in Node |-> <<>>]
    /\ outgoing_edges = [n \in Node |-> IF n = "n1" THEN {"n2"} ELSE {}]
    /\ incoming_edges = [n \in Node |-> IF n = "n2" THEN {"n1"} ELSE {}]
    /\ observers = [n \in Node |-> IF n = "n1" THEN {"n2"} ELSE {}]
    /\ state = [n \in Node |-> "IDLE"]
    /\ event_history = [n \in Node |-> <<>>]
    /\ metrics = [n \in Node |-> NewMetrics]
    /\ fanned_out = [n \in Node |-> <<>>]
    /\ InitRun
    /\ outcome = OK
    /\ rt = RtOff
    /\ NoIo

\* The configurations of the downlink node: complete, with each required
\* field missing in turn, with a short and with an oversized default payload.
LorawanConfigs ==
    {LorawanConfig("https://ns", "key", "dev", PlainText(0)),
     LorawanConfig("", "key", "dev", PlainText(0)),
     LorawanConfig("https://ns", "", "dev", PlainText(0)),
     LorawanConfig("https://ns", "key", "", PlainText(0)),
     LorawanConfig("https://ns", "key", "dev", PlainText(2)),
     LorawanConfig("https://ns", "key", "dev", PlainText(243))}

\* The payloads of the events sent to the downlink node: not a dict, a dict
\* with a short text, with texts and hex strings around the limit of 242
\* bytes, and with a hex string of an odd number of digits.
LorawanInputs ==
    {Num(5),
     Dict([payload |-> PlainText(3)]),
     Dict([payload |-> PlainText(242)]),
     Dict([payload |-> PlainText(243)]),
     Dict([payload |-> HexText(484, FALSE)]),
     Dict([payload |-> HexText(488, TRUE)]),
     Dict([payload |-> HexText(243, FALSE)])}

InitLorawan ==
    \E cfg \in LorawanConfigs :
        BuiltChain("LoRaWANDownlinkNode", cfg,
                   <<"lorawan_validation", "lorawan_logging">>, <<"lorawan">>)

InitChain ==
    \/ BuiltChain("BaseNode", NoConfig, <<"m2", "m3">>, <<"p", "q">>)
    \/ InitLorawan

ChainInputs ==
    IF node_class["n1"] = "LoRaWANDownlinkNode" THEN LorawanInputs
    ELSE {Num(5)}

NextChain ==
    \/ \E type \in {"DATA_CHANGE", "CUSTOM"}, data \in ChainInputs :
         trigger_event("a", type, data, <<>>)
    \/ before_process
    \/ select_processor
    \/ process
    \/ after_process
    \/ emit
    \/ \E o \in Node : deliver(o, <<>>)
    \/ notify_done

SpecChain == InitChain /\ [][NextChain]_vars

(***************************************************************************)
(* SpecErrors: a node whose pipeline may fail, given events with metadata  *)
(***************************************************************************)

\* The metadata of the events a host sends: none, a trace id, a status (as
\* the result events of the HTTP, mapper and LoRaWAN processors carry one),
\* and both.
Metadatas ==
    {{}, {Item("trace", "t1")}, {Item("status", "success")},
     {Item("status", "success"), Item("trace", "t1")}}

\* host call: await node.update(event), for a node of the graph.
host_update(n, event, res) ==
    /\ stack = <<>>
    /\ triggers < MaxTriggers
    /\ Len(heap) < MaxEvents
    /\ triggers' = triggers + 1
    /\ heap' = Append(heap, event)
    /\ res \in [1..Len(event_filters[n]) -> {"true", "false", "raise"}]
    /\ Update(n, Len(heap) + 1, NoNode, res, heap', <<>>)
    /\ outcome' = CASE ShouldProcessEvent(n, res) = "raise" ->
                         Trigger("Exception")
                    [] ShouldProcessEvent(n, res) = "false" -> Trigger("none")
                    [] OTHER -> Trigger("running")
    /\ UNCHANGED <<fixed, event_history, fanned_out, clock, calls>>

NextErrors ==
    \/ \E n \in {"n1", "n2"}, type \in {"DATA_CHANGE", "COMPUTATION_RESULT"},
          metadata \in Metadatas :
         host_update(n, WithMetadata(GraphEvent(type, Num(5), ""), metadata),
                     <<>>)
    \/ before_process
    \/ select_processor
    \/ process
    \/ after_process
    \/ emit
    \/ \E o \in Node : deliver(o, <<>>)
    \/ notify_done

SpecErrors == InitChain /\ [][NextErrors]_vars

(***************************************************************************)
(* SpecOverlap: two trigger_event calls in flight on one event loop. The   *)
(* call chain that runs is `stack`; the other one waits in `parked`.       *)
(***************************************************************************)

\* The running call chain is suspended in an await of a middleware hook or
\* a processor (or has returned), and the event loop runs the other chain,
\* or the host's next call.
yield ==
    /\ stack # parked
    /\ stack # <<>> => Awaiting(top)
    /\ stack' = parked
    /\ parked' = stack
    /\ UNCHANGED <<nodes, global_middleware, cfgVars, edgeVars, nodeVars,
                   heap, clock, triggers, received, calls, ret, outcome, rt,
                   http, mqtt, sub, pub, mapper>>

\* n1 with a middleware and a processor, observed by n2.
InitOverlap == BuiltChain("BaseNode", NoConfig, <<"m1">>, <<"p">>)

NextOverlap ==
    \/ \E type \in {"DATA_CHANGE", "CUSTOM"} :
         trigger_event("a", type, Num(5), <<>>)
    \/ yield
    \/ before_process
    \/ select_processor
    \/ process
    \/ after_process
    \/ emit
    \/ \E o \in Node : deliver(o, <<>>)
    \/ notify_done

SpecOverlap == InitOverlap /\ [][NextOverlap]_vars

(***************************************************************************)
(* SpecTerminates: one trigger_event on an acyclic graph whose hooks,      *)
(* filters and processors all return or raise. The event loop runs the     *)
(* call chain as long as it has a step to take.                            *)
(***************************************************************************)

\* The edges an acyclic graph over n1, n2, n3 may have.
DagEdges == {<<"n1", "n2">>, <<"n1", "n3">>, <<"n2", "n3">>}

\* n1 with a middleware and a processor, n2 with a processor, n3 with a
\* filter; the edges are any subset of DagEdges.
InitDag ==
    /\ id = [n \in Node |-> CASE n = "n1" -> "a" [] n = "n2" -> "b"
                              [] n = "n3" -> "c" [] OTHER -> "d"]
    /\ nodes = [i \in NodeIds |-> CASE i = "a" -> "n1" [] i = "b" -> "n2"
                                    [] i = "c" -> "n3" [] OTHER -> NoNode]
    /\ global_middleware = <<>>
    /\ node_class = [n \in Node |-> "BaseNode"]
    /\ config = [n \in Node |-> NoConfig]
    /\ middleware = [n \in Node |-> IF n = "n1" THEN <<"m1">> ELSE <<>>]
    /\ processors = [n \in Node |-> IF n \in {"n1", "n2"} THEN <<"p">>
                                    ELSE <<>>]
    /\ event_filters = [n \in Node |-> IF n = "n3" THEN <<"f">> ELSE <<>>]
    /\ \E edges \in SUBSET DagEdges :
          /\ outgoing_edges = [n \in Node |->
                                 {m \in Node : <<n, m>> \in edges}]
          /\ incoming_edges = [n \in Node |->
                                 {m \in Node : <<m, n>> \in edges}]
    /\ observers = outgoing_edges
    /\ state = [n \in Node |-> "IDLE"]
    /\ event_history = [n \in Node |-> <<>>]
    /\ metrics = [n \in Node |-> NewMetrics]
    /\ fanned_out = [n \in Node |-> <<>>]
    /\ InitRun
    /\ outcome = OK
    /\ rt = RtOff
    /\ NoIo

\* A step of the call chain: a hook, a processor or an update call returns
\* or raises.
PipelineStep ==
    \/ before_process
    \/ select_processor
    \/ process
    \/ after_process
    \/ emit
    \/ \E o \in Node :
         \E res \in FilterResults :
            deliver(o, res)
    \/ notify_done

NextTerminates ==
    \/ trigger_event("a", "DATA_CHANGE", Num(5), <<>>)
    \/ PipelineStep

SpecTerminates ==
    InitDag /\ [][NextTerminates]_vars /\ WF_vars(PipelineStep)

(***************************************************************************)
(* SpecHistory: a host that calls notify_observers on a node without       *)
(* observers, with a fresh event each time, often enough to fill the       *)
(* history and evict from it.                                              *)
(***************************************************************************)

\* At most this many notify_observers calls by the host.
MaxNotifications == 102

\* host call: await n.notify_observers(GraphEvent(type=type)); with no
\* observer the loop is empty and the call returns.
host_notify(n, type) ==
    /\ stack = <<>>
    /\ observers[n] = {}
    /\ Len(heap) < MaxNotifications
    /\ Announce(n, Len(heap) + 1,
                Append(heap, GraphEvent(type, Num(Len(heap)), "")), metrics)
    /\ outcome' = OK
    /\ UNCHANGED <<fixed, state, stack, triggers, received, calls, ret>>

InitHistory == InitBuild /\ rt = RtOff /\ NoIo

NextHistory == host_notify("n1", "CUSTOM")

SpecHistory == InitHistory /\ [][NextHistory]_vars

(***************************************************************************)
(* SpecHttp: one process() call of an HTTP request processor               *)
(* (HTTPGetRequestProcessor; the other verbs run the same loop).           *)
(***************************************************************************)

\* The processor is configured with at most this many retries.
MaxRetries == 3

\* Request payloads: a dict with a url, a dict without one, not a dict.
Request(url) == [kind |-> "request", url |-> url]
HttpInputs ==
    {Request("http://h"), Request("https://h"), Request("ftp://h"),
     Request(NoNode), Num(5)}

\* HTTPProcessor._validate_request_data
ValidateRequestData(data) ==
    /\ data.kind = "request"
    /\ data.url # NoNode
    /\ data.url \in {"http://h", "https://h"}

\* What one attempt does: the request succeeds, asyncio.TimeoutError,
\* aiohttp.ClientError, or any other exception.
AttemptOutcomes == {"ok", "timeout", "client_error", "unexpected"}

\* HTTPProcessor.create_error_event
HttpErrorEvent(error_message, original_event, node_id) ==
    [type |-> "ERROR", data |-> ErrorData(error_message, original_event.data),
     source_id |-> node_id, metadata |-> [status |-> "error", attempt |-> 0]]

\* HTTPProcessor._create_response_event
CreateResponseEvent(status, event, node_id, attempt) ==
    [type |-> "COMPUTATION_RESULT",
     data |-> [kind |-> "response", status |-> status],
     source_id |-> event.source_id,
     metadata |-> [status |-> status, attempt |-> attempt + 1]]

\* process() returned None.
NoEvent == [type |-> "None"]

\* A slip: a timeout or client error ends the call at once.
HandleRequestExceptionsNoRetry(retries, attempt, event, node_id, error) ==
    CASE error = "timeout" -> HttpErrorEvent("Request timeout", event, node_id)
      [] error = "client_error" ->
            HttpErrorEvent("HTTP request failed", event, node_id)
      [] OTHER -> HttpErrorEvent("Unexpected error", event, node_id)

\* HTTPProcessor._handle_request_exceptions
HandleRequestExceptions(retries, attempt, event, node_id, error) ==
    CASE error = "timeout" ->
            IF attempt = retries - 1
            THEN HttpErrorEvent("Request timeout", event, node_id)
            ELSE NoEvent
      [] error = "client_error" ->
            IF attempt = retries - 1
            THEN HttpErrorEvent("HTTP request failed", event, node_id)
            ELSE NoEvent
      [] OTHER -> HttpErrorEvent("Unexpected error", event, node_id)

\* HTTPProcessor.__init__ with config {"retries": retries}
HttpProcessor(retries) ==
    [pc |-> "idle", retries |-> retries, event |-> NoEvent, attempt |-> 0,
     outcomes |-> <<>>, sleeps |-> 0, result |-> NoEvent]

httpRest == <<nodes, global_middleware, cfgVars, edgeVars, nodeVars, heap,
              stack, clock, triggers, received, calls, ret, outcome, rt,
              mqtt, sub, pub, mapper, parked>>

\* process(event, context) is called: validation, then the first iteration
\* of the loop is about to start.
http_process(data) ==
    /\ http.pc = "idle"
    /\ LET event == GraphEvent("DATA_CHANGE", data, "src") IN
       IF ~ValidateRequestData(data)
       THEN http' = [http EXCEPT !.pc = "done", !.event = event,
                       !.result = HttpErrorEvent("Invalid request data",
                                                 event, "a")]
       ELSE http' = [http EXCEPT !.pc = "loop", !.event = event,
                                 !.attempt = 0]
    /\ UNCHANGED httpRest

\* One iteration of `for attempt in range(self.retries)` up to its return
\* or its sleep: the request is made and o is how it ends.
http_attempt(o) ==
    /\ http.pc = "loop"
    /\ http.attempt < http.retries
    /\ LET made == [http EXCEPT !.outcomes = Append(@, o)]
           error_event == HandleRequestExceptions(http.retries, http.attempt,
                                                  http.event, "a", o)
       IN IF o = "ok"
          THEN http' = [made EXCEPT !.pc = "done",
                          !.result = CreateResponseEvent(200, http.event, "a",
                                                         http.attempt)]
          ELSE IF error_event # NoEvent
          THEN http' = [made EXCEPT !.pc = "done", !.result = error_event]
          ELSE IF http.attempt < http.retries - 1
          THEN http' = [made EXCEPT !.pc = "sleep"]
          ELSE http' = [made EXCEPT !.attempt = @ + 1]
    /\ UNCHANGED httpRest

\* await asyncio.sleep(self.retry_delay) returns; the next iteration.
http_sleep ==
    /\ http.pc = "sleep"
    /\ http' = [http EXCEPT !.pc = "loop", !.attempt = @ + 1,
                            !.sleeps = @ + 1]
    /\ UNCHANGED httpRest

\* The loop is exhausted and process falls off its end: it returns None.
http_exit ==
    /\ http.pc = "loop"
    /\ http.attempt >= http.retries
    /\ http' = [http EXCEPT !.pc = "done", !.result = NoEvent]
    /\ UNCHANGED httpRest

InitHttp ==
    /\ InitBuild
    /\ rt = RtOff
    /\ mqtt = NoMqtt
    /\ sub = NoSub
    /\ pub = NoPub
    /\ mapper = NoMapper
    /\ parked = <<>>
    /\ \E retries \in 0..MaxRetries : http = HttpProcessor(retries)

NextHttp ==
    \/ \E data \in HttpInputs : http_process(data)
    \/ \E o \in AttemptOutcomes : http_attempt(o)
    \/ http_sleep
    \/ http_exit

SpecHttp == InitHttp /\ [][NextHttp]_vars

(***************************************************************************)
(* SpecMqtt: one connect() call of an MQTTConnectionManager                *)
(***************************************************************************)

\* At most this many connection attempts are followed.
MaxAttempts == 7

RECURSIVE Pow(_, _)
\* b ** e
Pow(b, e) == IF e = 0 THEN 1 ELSE b * Pow(b, e - 1)

\* min(a, b)
Min(a, b) == IF a <= b THEN a ELSE b

\* The retry settings and the hostname of the configuration, with
\* reconnect_on_failure at its default and one topic to subscribe to.
MqttConfig(hostname, max_retries, retry_delay, backoff, max_delay) ==
    [hostname |-> hostname, max_retries |-> max_retries,
     retry_delay |-> retry_delay, retry_backoff |-> backoff,
     max_retry_delay |-> max_delay, reconnect_on_failure |-> TRUE,
     topics |-> <<"sensors/#">>]

\* retry_delay = 1, backoff = 2, max_retry_delay = 10, max_retries = 5
ExampleRetrySettings == MqttConfig("broker", 5, 1, 2, 10)

\* The configurations: the example, the defaults of the constructor,
\* smaller numbers of retries, a constant delay, and no hostname.
MqttConfigs ==
    {ExampleRetrySettings,
     MqttConfig("broker", 5, 5, 2, 60),
     MqttConfig("broker", 0, 1, 2, 10),
     MqttConfig("broker", 1, 1, 2, 10),
     MqttConfig("broker", 2, 1, 2, 10),
     MqttConfig("broker", 3, 2, 1, 10),
     MqttConfig(NoNode, 5, 1, 2, 10)}

\* MQTTConnectionManager.__init__
MqttConnectionManager(cfg) ==
    [pc |-> "idle", cfg |-> cfg, client |-> FALSE, is_connected |-> FALSE,
     open |-> FALSE, subscribed |-> <<>>,
     reconnect_attempts |-> 0, should_reconnect |-> TRUE,
     outcomes |-> <<>>, delay |-> 0, delays |-> <<>>, computed |-> <<>>,
     exc |-> "none"]

\* What one attempt does: the broker accepts the connection and the
\* subscriptions; aiomqtt.MqttError while connecting; aiomqtt.MqttError
\* after the connection was made (while subscribing); any other exception.
ConnectOutcomes == {"ok", "connect_error", "subscribe_error", "other"}

\* delay = min(retry_delay * backoff ** (attempts - 1), max_retry_delay)
RetryDelay(cfg, reconnect_attempts) ==
    Min(cfg.retry_delay * Pow(cfg.retry_backoff, reconnect_attempts - 1),
        cfg.max_retry_delay)

mqttRest == <<nodes, global_middleware, cfgVars, edgeVars, nodeVars, heap,
              stack, clock, triggers, received, calls, ret, outcome, rt,
              http, sub, pub, mapper, parked>>

\* connect() is called: the hostname check and the reset of the counter.
mqtt_connect ==
    /\ mqtt.pc = "idle"
    /\ IF mqtt.cfg.hostname = NoNode
       THEN mqtt' = [mqtt EXCEPT !.pc = "raised", !.exc = "ValueError"]
       ELSE mqtt' = [mqtt EXCEPT !.pc = "loop", !.should_reconnect = TRUE,
                                 !.reconnect_attempts = 0]
    /\ UNCHANGED mqttRest

\* The except branch for aiomqtt.MqttError, entered with the counter at
\* `attempts`: count, compute the delay, drop the client, then raise the
\* terminal error or go to sleep.
MqttFailed(m, attempts) ==
    LET n == attempts + 1
        delay == RetryDelay(m.cfg, n)
        failed == [m EXCEPT !.reconnect_attempts = n, !.client = FALSE,
                            !.open = FALSE, !.subscribed = <<>>,
                            !.delay = delay, !.computed = Append(@, delay)]
    IN IF n >= m.cfg.max_retries
       THEN [failed EXCEPT !.pc = "raised", !.exc = "ConnectionError"]
       ELSE [failed EXCEPT !.pc = "sleep"]

\* One iteration of `while self._reconnect_attempts < self._max_retries`
\* up to its return, its raise or its sleep; o is how the attempt ends.
mqtt_attempt(o) ==
    /\ mqtt.pc = "loop"
    /\ mqtt.reconnect_attempts < mqtt.cfg.max_retries
    /\ Len(mqtt.outcomes) < MaxAttempts
    /\ o = "subscribe_error" => mqtt.cfg.topics # <<>>
    /\ LET tried == [mqtt EXCEPT !.outcomes = Append(@, o), !.client = TRUE,
                                 !.open = FALSE, !.subscribed = <<>>]
           connected == [tried EXCEPT !.is_connected = TRUE, !.open = TRUE,
                                      !.reconnect_attempts = 0]
       IN mqtt' =
            CASE o = "ok" -> [connected EXCEPT !.pc = "returned",
                                               !.subscribed = mqtt.cfg.topics]
              [] o = "connect_error" ->
                    MqttFailed(tried, tried.reconnect_attempts)
              [] o = "subscribe_error" ->
                    MqttFailed(connected, connected.reconnect_attempts)
              [] OTHER -> [tried EXCEPT !.pc = "raised", !.exc = "Exception"]
    /\ UNCHANGED mqttRest

\* await asyncio.sleep(delay) returns; the next iteration.
mqtt_sleep ==
    /\ mqtt.pc = "sleep"
    /\ mqtt' = [mqtt EXCEPT !.pc = "loop", !.delays = Append(@, mqtt.delay)]
    /\ UNCHANGED mqttRest

\* The loop condition is false and connect falls off its end.
mqtt_exit ==
    /\ mqtt.pc = "loop"
    /\ mqtt.reconnect_attempts >= mqtt.cfg.max_retries
    /\ mqtt' = [mqtt EXCEPT !.pc = "returned"]
    /\ UNCHANGED mqttRest

InitMqtt ==
    /\ InitBuild
    /\ rt = RtOff
    /\ http = NoHttp
    /\ sub = NoSub
    /\ pub = NoPub
    /\ mapper = NoMapper
    /\ parked = <<>>
    /\ \E cfg \in MqttConfigs : mqtt = MqttConnectionManager(cfg)

NextMqtt ==
    \/ mqtt_connect
    \/ \E o \in ConnectOutcomes : mqtt_attempt(o)
    \/ mqtt_sleep
    \/ mqtt_exit

SpecMqtt == InitMqtt /\ [][NextMqtt]_vars

(***************************************************************************)
(* SpecListen: MQTTConnectionManager.listen running as a task, either on   *)
(* a manager used directly or on the manager of an MQTTSubscriberNode      *)
(***************************************************************************)

\* At most this many failures of the message stream, incoming messages and
\* start() calls are followed.
MaxFailures == 2
MaxMessages == 2
MaxStarts == 2

\* A configuration with the given retry_settings.max_retries,
\* retry_settings.reconnect_on_failure and subscription_settings.topics.
ListenConfig(max_retries, reconnect_on_failure, topics) ==
    [MqttConfig("broker", max_retries, 1, 2, 10)
        EXCEPT !.reconnect_on_failure = reconnect_on_failure,
               !.topics = topics]

ListenConfigs ==
    {ListenConfig(r, b, t) :
        r \in {0, 1, 2}, b \in BOOLEAN, t \in {<<>>, <<"sensors/#">>}}

\* MQTTSubscriberNode.__init__ (node = TRUE), or no node at all: the
\* callbacks of a manager that is used directly (node = FALSE).
\*   pc        the start()/stop() call of the host that is in progress
\*   task      where the listener task (listen) is
\*   disc      where a disconnect() call made on the manager directly is
\*   requested disconnect() has been called on the current manager
\*   messages  on_message calls (MQTT_MESSAGE events of the node)
\*   disconnects  on_disconnect calls
\*   last      how the last start()/stop() call ended
\*   stopped   stop() has returned from a running state and start() has
\*             not been called since
MqttSubscriberNode(node) ==
    [pc |-> "idle", node |-> node, is_running |-> FALSE,
     connection_manager |-> FALSE, listener_task |-> FALSE,
     task |-> "none", disc |-> "none", requested |-> FALSE,
     messages |-> 0, disconnects |-> 0, failures |-> 0, starts |-> 0,
     last |-> "none", stopped |-> FALSE, exc |-> "none"]

listenKept == <<nodes, global_middleware, cfgVars, edgeVars, nodeVars, heap,
                clock, triggers, received, calls, ret, outcome, rt, http, pub,
                mapper, parked>>
listenRest == <<listenKept, stack>>

\* The listener task is finished: it returned, was cancelled or raised.
Finished(task) == task \in {"done", "cancelled", "failed"}

\* The listener task is suspended in an await (or not running), so that
\* another coroutine of the event loop can run.
Suspended ==
    \/ sub.task \in {"none", "created", "messages", "on_disconnect", "sleep"}
    \/ /\ sub.task = "deliver"
       /\ stack # <<>> => Awaiting(top)
    \/ Finished(sub.task)
    \/ sub.task = "connect" /\ mqtt.pc \in {"loop", "sleep"}

\* `async for message in self._client.messages` is reached: the attribute
\* access fails when there is no client.
Iterate(s, m) ==
    IF m.client THEN [s EXCEPT !.task = "messages"]
    ELSE [s EXCEPT !.task = "failed", !.exc = "AttributeError"]

\* listen: the head of `while self._should_reconnect`, up to the call of
\* connect() or the message loop.
listen_top ==
    /\ sub.task \in {"created", "top"}
    /\ IF ~mqtt.should_reconnect
       THEN /\ sub' = [sub EXCEPT !.task = "done"]
            /\ mqtt' = mqtt
       ELSE IF ~mqtt.is_connected
       THEN /\ sub' = [sub EXCEPT !.task = "connect"]
            /\ mqtt' = [mqtt EXCEPT !.pc = "idle", !.outcomes = <<>>,
                                    !.delay = 0, !.delays = <<>>,
                                    !.computed = <<>>, !.exc = "none"]
       ELSE /\ sub' = Iterate(sub, mqtt)
            /\ mqtt' = mqtt
    /\ UNCHANGED listenRest

\* listen: `await self.connect()` is over. A return leads to the message
\* loop; what connect raises is no MqttError and leaves listen.
listen_connected ==
    /\ sub.task = "connect"
    /\ mqtt.pc \in {"returned", "raised"}
    /\ sub' = IF mqtt.pc = "returned" THEN Iterate(sub, mqtt)
              ELSE [sub EXCEPT !.task = "failed", !.exc = mqtt.exc]
    /\ UNCHANGED <<mqtt, listenRest>>

\* listen: a message of a subscribed topic arrives and on_message is called.
listen_message ==
    /\ sub.task = "messages"
    /\ mqtt.client /\ mqtt.open /\ mqtt.subscribed # <<>>
    /\ sub.messages < MaxMessages
    /\ sub' = [sub EXCEPT !.task = "deliver", !.messages = @ + 1]
    /\ UNCHANGED <<mqtt, listenRest>>

\* A slip: the callback is started and not awaited.
CallbackNotAwaited == TRUE

\* `await self._on_message(...)`: the await is over when every call the
\* callback made has returned.
CallbackOver == stack = <<>>

\* listen: `await self._on_message(...)` returns.
listen_delivered ==
    /\ sub.task = "deliver"
    /\ CallbackOver
    /\ sub' = [sub EXCEPT !.task = "messages"]
    /\ UNCHANGED <<mqtt, listenRest>>

\* listen: the message stream raises aiomqtt.MqttError; the flag is cleared
\* and on_disconnect is called.
listen_stream_error ==
    /\ sub.task = "messages"
    /\ sub.failures < MaxFailures
    /\ mqtt' = [mqtt EXCEPT !.is_connected = FALSE, !.open = FALSE]
    /\ sub' = [sub EXCEPT !.task = "on_disconnect", !.failures = @ + 1,
                          !.disconnects = @ + 1]
    /\ UNCHANGED listenRest

\* if self._reconnect_on_failure
ListenDecisionIgnoringDisconnect(m) == m.cfg.reconnect_on_failure

\* if self._reconnect_on_failure and self._should_reconnect
ListenDecision(m) == m.cfg.reconnect_on_failure /\ m.should_reconnect

\* listen: `await self._on_disconnect(...)` returns; reconnect or break.
listen_disconnect_handled ==
    /\ sub.task = "on_disconnect"
    /\ IF ListenDecision(mqtt)
       THEN /\ mqtt' = [mqtt EXCEPT !.reconnect_attempts = 0]
            /\ sub' = [sub EXCEPT !.task = "sleep"]
       ELSE /\ mqtt' = mqtt
            /\ sub' = [sub EXCEPT !.task = "done"]
    /\ UNCHANGED listenRest

\* listen: `await asyncio.sleep(self._retry_delay)` returns.
listen_slept ==
    /\ sub.task = "sleep"
    /\ sub' = [sub EXCEPT !.task = "top"]
    /\ UNCHANGED <<mqtt, listenRest>>

\* disconnect(), up to `await self._client.__aexit__(...)`.
DisconnectRequested(m) == [m EXCEPT !.should_reconnect = FALSE]

\* disconnect(), the finally clause after __aexit__.
Disconnected(m) ==
    [m EXCEPT !.client = FALSE, !.is_connected = FALSE, !.open = FALSE,
              !.subscribed = <<>>]

\* disconnect() is called on a manager that is used directly.
host_disconnect ==
    /\ ~sub.node
    /\ sub.disc = "none"
    /\ Suspended
    /\ mqtt' = DisconnectRequested(mqtt)
    /\ sub' = [sub EXCEPT !.requested = TRUE,
                          !.disc = IF mqtt.client THEN "exiting" ELSE "done"]
    /\ UNCHANGED listenRest

\* __aexit__ returns (or raises) and disconnect() finishes.
host_disconnected ==
    /\ sub.disc = "exiting"
    /\ Suspended
    /\ mqtt' = Disconnected(mqtt)
    /\ sub' = [sub EXCEPT !.disc = "done"]
    /\ UNCHANGED listenRest

\* MQTTSubscriberNode.start, up to `await self._connection_manager.connect()`.
sub_start ==
    /\ sub.node
    /\ sub.pc = "idle"
    /\ sub.starts < MaxStarts
    /\ IF sub.is_running
       THEN /\ sub' = [sub EXCEPT !.last = "already_running",
                                  !.starts = @ + 1]
            /\ mqtt' = mqtt
       ELSE /\ sub' = [sub EXCEPT !.pc = "starting", !.starts = @ + 1,
                                  !.connection_manager = TRUE,
                                  !.task = "none", !.requested = FALSE,
                                  !.last = "none", !.stopped = FALSE]
            /\ mqtt' = MqttConnectionManager(mqtt.cfg)
    /\ UNCHANGED listenRest

\* MQTTSubscriberNode.start, after connect(): the listener task is created,
\* or the exception of connect() leaves start.
sub_started ==
    /\ sub.pc = "starting"
    /\ mqtt.pc \in {"returned", "raised"}
    /\ sub' = IF mqtt.pc = "returned"
              THEN [sub EXCEPT !.pc = "idle", !.is_running = TRUE,
                               !.listener_task = TRUE, !.task = "created",
                               !.last = "started"]
              ELSE [sub EXCEPT !.pc = "idle", !.last = "start_raised",
                               !.exc = mqtt.exc]
    /\ UNCHANGED <<mqtt, listenRest>>

\* What asyncio.CancelledError, thrown into the listener task where it is
\* suspended, leaves behind: the task and the manager. Inside the try block
\* of listen it is caught (break); in the except handler of listen it leaves
\* the task. A task that is finished is not touched.
Cancelled(task, m) ==
    LET out == [m EXCEPT !.pc = "raised", !.exc = "CancelledError"]
    IN CASE task = "created" -> {[task |-> "cancelled", mqtt |-> m]}
         [] task \in {"messages", "deliver"} ->
                {[task |-> "done", mqtt |-> m]}
         [] task \in {"on_disconnect", "sleep"} ->
                {[task |-> "cancelled", mqtt |-> m]}
         [] task = "connect" /\ m.pc = "sleep" ->
                {[task |-> "done", mqtt |-> out]}
         [] task = "connect" /\ m.pc = "loop" ->
                \* in __aenter__; in _subscribe_to_topics or on_connect;
                \* in the __aexit__ of the clean-up after an MqttError
                {[task |-> "done", mqtt |-> mm] :
                    mm \in {[out EXCEPT !.client = TRUE],
                            [out EXCEPT !.client = TRUE, !.open = TRUE,
                                        !.is_connected = TRUE,
                                        !.reconnect_attempts = 0],
                            [out EXCEPT !.client = TRUE,
                                        !.reconnect_attempts = @ + 1],
                            [out EXCEPT !.client = TRUE,
                                        !.is_connected = TRUE,
                                        !.reconnect_attempts = 1]}}
         [] OTHER -> {[task |-> task, mqtt |-> m]}

\* MQTTSubscriberNode.stop, up to the __aexit__ inside disconnect(): the
\* flag, the cancellation of the listener task, `await self._listener_task`
\* and the call of disconnect(). A cancellation that reaches the task inside
\* the callback leaves every update call of the fan-out where it is
\* suspended (update catches Exception, which CancelledError is not).
sub_stop ==
    /\ sub.node
    /\ sub.pc = "idle"
    /\ Suspended
    /\ IF ~sub.is_running
       THEN /\ sub' = [sub EXCEPT !.last = "stop_noop"]
            /\ mqtt' = mqtt
            /\ stack' = stack
       ELSE \E c \in Cancelled(sub.task, mqtt) :
              IF c.task = "failed"
              THEN /\ sub' = [sub EXCEPT !.is_running = FALSE,
                                         !.last = "stop_raised"]
                   /\ mqtt' = mqtt
                   /\ stack' = stack
              ELSE /\ mqtt' = DisconnectRequested(c.mqtt)
                   /\ stack' = <<>>
                   /\ sub' = [sub EXCEPT
                                !.is_running = FALSE, !.task = c.task,
                                !.listener_task = FALSE,
                                !.requested = TRUE,
                                !.pc = IF c.mqtt.client THEN "stopping"
                                       ELSE "idle",
                                !.connection_manager = c.mqtt.client,
                                !.last = IF c.mqtt.client THEN "none"
                                         ELSE "stop_returned",
                                !.stopped = ~c.mqtt.client]
    /\ UNCHANGED listenKept

\* MQTTSubscriberNode.stop, after the __aexit__ inside disconnect().
sub_stopped ==
    /\ sub.pc = "stopping"
    /\ mqtt' = Disconnected(mqtt)
    /\ sub' = [sub EXCEPT !.pc = "idle", !.connection_manager = FALSE,
                          !.last = "stop_returned", !.stopped = TRUE]
    /\ UNCHANGED listenRest

InitListen ==
    /\ InitBuild
    /\ rt = RtOff
    /\ http = NoHttp
    /\ pub = NoPub
    /\ mapper = NoMapper
    /\ parked = <<>>
    /\ \E cfg \in ListenConfigs :
          mqtt = [MqttConnectionManager(cfg) EXCEPT !.pc = "new"]
    /\ \/ sub = MqttSubscriberNode(TRUE)
       \/ sub = [MqttSubscriberNode(FALSE) EXCEPT !.task = "top"]

NextListen ==
    \/ mqtt_connect
    \/ \E o \in ConnectOutcomes : mqtt_attempt(o)
    \/ mqtt_sleep
    \/ mqtt_exit
    \/ listen_top
    \/ listen_connected
    \/ listen_message
    \/ listen_delivered
    \/ listen_stream_error
    \/ listen_disconnect_handled
    \/ listen_slept
    \/ host_disconnect
    \/ host_disconnected
    \/ sub_start
    \/ sub_started
    \/ sub_stop
    \/ sub_stopped

SpecListen == InitListen /\ [][NextListen]_vars

(***************************************************************************)
(* SpecFanout: an MQTTSubscriberNode (n1) whose listen loop feeds a graph: *)
(* n1 is observed by n2 and n3, and n2 (with a processor and a middleware) *)
(* by n3. The host starts and stops the subscriber while messages arrive;   *)
(* the broker accepts every connection and the stream does not break.      *)
(***************************************************************************)

\* The payload of the k-th message as the broker sends it: the JSON text of
\* the number k, a plain text, or bytes that are not UTF-8.
MqttPayload(kind, k) ==
    CASE kind = "json" -> Bytes("utf-8", Num(k))
      [] kind = "text" -> Bytes("utf-8", Text(k))
      [] OTHER -> Bytes("latin-1", Text(k))

\* _handle_incoming_message, the decoding of the payload: the parsed JSON
\* value, else the decoded text, else the bytes as they came.
DecodePayload(payload) ==
    IF payload.encoding # "utf-8" THEN payload
    ELSE IF payload.of.kind = "num" THEN payload.of
    ELSE payload.of

\* _handle_incoming_message: the MQTT_MESSAGE event of a message.
MqttMessageEvent(n, topic, payload, broker) ==
    WithMetadata(
        GraphEvent("MQTT_MESSAGE",
                   Dict([topic |-> topic, payload |-> DecodePayload(payload),
                         raw_payload |-> payload]),
                   id[n]),
        {Item("qos", "0"), Item("retain", "False"), Item("broker", broker)})

\* listen: a message of a subscribed topic arrives and the callback of the
\* subscriber node is called; it runs up to the first update call of
\* notify_observers.
on_message(kind) ==
    /\ sub.node
    /\ sub.task = "messages"
    /\ mqtt.client /\ mqtt.open /\ mqtt.subscribed # <<>>
    /\ sub.messages < MaxMessages
    /\ Len(heap) < MaxEvents
    /\ sub' = [sub EXCEPT !.task = "deliver", !.messages = @ + 1]
    /\ LET e == Len(heap) + 1
           event == MqttMessageEvent("n1", mqtt.subscribed[1],
                                     MqttPayload(kind, sub.messages + 1),
                                     mqtt.cfg.hostname)
       IN /\ Announce("n1", e, Append(heap, event), metrics)
          /\ stack' = Append(stack,
                 [Frame("n1", e, NoNode, state["n1"], metrics["n1"])
                    EXCEPT !.pc = "notify", !.pending = observers["n1"],
                           !.after = "return", !.notified = TRUE,
                           !.emitted = e, !.targets = observers["n1"]])
    /\ ret' = NoRet
    /\ UNCHANGED <<nodes, global_middleware, cfgVars, edgeVars, state,
                   triggers, received, calls, outcome, rt, http, mqtt, pub,
                   mapper, parked>>

InitFanout ==
    /\ id = [n \in Node |-> CASE n = "n1" -> "a" [] n = "n2" -> "b"
                              [] n = "n3" -> "c" [] OTHER -> "d"]
    /\ nodes = [i \in NodeIds |-> CASE i = "a" -> "n1" [] i = "b" -> "n2"
                                    [] i = "c" -> "n3" [] OTHER -> NoNode]
    /\ global_middleware = <<>>
    /\ node_class = [n \in Node |-> IF n = "n1" THEN "MQTTSubscriberNode"
                                    ELSE "BaseNode"]
    /\ config = [n \in Node |-> NoConfig]
    /\ middleware = [n \in Node |-> IF n = "n2" THEN <<"m1">> ELSE <<>>]
    /\ processors = [n \in Node |-> IF n = "n2" THEN <<"p">> ELSE <<>>]
    /\ event_filters = [n \in Node |-> <<>>]
    /\ outgoing_edges = [n \in Node |-> CASE n = "n1" -> {"n2", "n3"}
                                          [] n = "n2" -> {"n3"}
                                          [] OTHER -> {}]
    /\ incoming_edges = [n \in Node |-> CASE n = "n2" -> {"n1"}
                                          [] n = "n3" -> {"n1", "n2"}
                                          [] OTHER -> {}]
    /\ observers = outgoing_edges
    /\ state = [n \in Node |-> "IDLE"]
    /\ event_history = [n \in Node |-> <<>>]
    /\ metrics = [n \in Node |-> NewMetrics]
    /\ fanned_out = [n \in Node |-> <<>>]
    /\ InitRun
    /\ outcome = OK
    /\ rt = RtOff
    /\ http = NoHttp
    /\ pub = NoPub
    /\ mapper = NoMapper
    /\ parked = <<>>
    /\ mqtt = [MqttConnectionManager(ListenConfig(1, TRUE, <<"sensors/#">>))
                EXCEPT !.pc = "new"]
    /\ sub = MqttSubscriberNode(TRUE)

NextFanout ==
    \/ mqtt_connect
    \/ mqtt_attempt("ok")
    \/ listen_top
    \/ \E kind \in {"json", "text", "raw"} : on_message(kind)
    \/ listen_delivered
    \/ sub_start
    \/ sub_started
    \/ sub_stop
    \/ sub_stopped
    \/ before_process
    \/ select_processor
    \/ process
    \/ after_process
    \/ emit
    \/ \E o \in Node : deliver(o, <<>>)
    \/ notify_done

SpecFanout == InitFanout /\ [][NextFanout]_vars

(***************************************************************************)
(* SpecLifecycle: start() and stop() calls on one MQTTSubscriberNode that  *)
(* may overlap. Each call is a coroutine of its own; the managers and the  *)
(* listener tasks the calls create are objects the node refers to by       *)
(* index (0: None).                                                        *)
(***************************************************************************)

\* At most this many stop() calls are followed.
MaxStops == 2

\* MQTTSubscriberNode.__init__, with the objects created so far:
\*   managers  per manager: a client is held (the connection is open), and
\*             _should_reconnect
\*   tasks     per listener task: the manager it listens on and whether it
\*             runs, has been cancelled and not yet finished, or is done
\*   calls     per start()/stop() call that reached an await: where it is
\*             and the object it awaits
SubscriberLifecycle ==
    [pc |-> "lifecycle", is_running |-> FALSE, connection_manager |-> 0,
     listener_task |-> 0, managers |-> <<>>, tasks |-> <<>>, calls |-> <<>>,
     starts |-> 0, stops |-> 0]

\* start(), up to `await self._connection_manager.connect()`.
start ==
    /\ sub.starts < MaxStarts
    /\ sub' =
         IF sub.is_running THEN [sub EXCEPT !.starts = @ + 1]
         ELSE LET m == Len(sub.managers) + 1
              IN [sub EXCEPT
                    !.starts = @ + 1,
                    !.managers = Append(@, [client |-> FALSE,
                                            should_reconnect |-> TRUE]),
                    !.connection_manager = m,
                    !.calls = Append(@, [op |-> "start", pc |-> "connect",
                                         on |-> m])]
    /\ UNCHANGED <<mqtt, listenRest>>

\* start(), after the await: connect() raised, or it returned and start
\* sets the flag and creates the listener task on the manager the node
\* refers to now.
started(c, connected) ==
    /\ c \in DOMAIN sub.calls
    /\ sub.calls[c].pc = "connect"
    /\ LET m == sub.calls[c].on
           run == [sub EXCEPT !.managers[m].client = TRUE,
                              !.is_running = TRUE]
       IN sub' =
            IF ~connected THEN [sub EXCEPT !.calls[c].pc = "raised"]
            ELSE IF sub.connection_manager = 0
            THEN [run EXCEPT !.calls[c].pc = "raised"]
            ELSE [run EXCEPT
                    !.tasks = Append(@, [manager |-> sub.connection_manager,
                                         status |-> "running"]),
                    !.listener_task = Len(sub.tasks) + 1,
                    !.calls[c].pc = "returned"]
    /\ UNCHANGED <<mqtt, listenRest>>

\* stop(), from `if self._connection_manager:` on, in the node s for the
\* call c: disconnect() on the manager the node refers to now, up to the
\* __aexit__ of its client; without a client disconnect returns at once.
StopDisconnect(s, c) ==
    LET m == s.connection_manager IN
    IF m = 0 THEN [s EXCEPT !.calls[c].pc = "returned"]
    ELSE IF s.managers[m].client
    THEN [s EXCEPT !.managers[m].should_reconnect = FALSE,
                   !.calls[c].pc = "disconnect", !.calls[c].on = m]
    ELSE [s EXCEPT !.managers[m].should_reconnect = FALSE,
                   !.connection_manager = 0,
                   !.calls[c].pc = "returned"]

\* stop(), up to `await self._listener_task` (or, without a task, to the
\* await inside disconnect).
stop ==
    /\ sub.stops < MaxStops
    /\ LET c == Len(sub.calls) + 1
           t == sub.listener_task
           off == [sub EXCEPT !.stops = @ + 1, !.is_running = FALSE,
                              !.calls = Append(@, [op |-> "stop",
                                                   pc |-> "await_task",
                                                   on |-> t])]
       IN sub' =
            IF ~sub.is_running THEN [sub EXCEPT !.stops = @ + 1]
            ELSE IF t # 0
            THEN [off EXCEPT !.tasks[t].status =
                                IF @ = "running" THEN "cancelled" ELSE @]
            ELSE StopDisconnect(off, c)
    /\ UNCHANGED <<mqtt, listenRest>>

\* stop(), after `await self._listener_task`: the cancelled task is done.
stop_awaited(c) ==
    /\ c \in DOMAIN sub.calls
    /\ sub.calls[c].pc = "await_task"
    /\ sub' = StopDisconnect(
                 [sub EXCEPT !.tasks[sub.calls[c].on].status = "done",
                             !.listener_task = 0], c)
    /\ UNCHANGED <<mqtt, listenRest>>

\* stop(), after the __aexit__ inside disconnect(): the finally clause of
\* disconnect and `self._connection_manager = None`.
stopped(c) ==
    /\ c \in DOMAIN sub.calls
    /\ sub.calls[c].pc = "disconnect"
    /\ sub' = [sub EXCEPT !.managers[sub.calls[c].on].client = FALSE,
                          !.connection_manager = 0,
                          !.calls[c].pc = "returned"]
    /\ UNCHANGED <<mqtt, listenRest>>

\* listen on a manager that has been disconnected: the message stream
\* ends with aiomqtt.MqttError, _should_reconnect is false, and listen
\* breaks out of its loop.
listen_ends(t) ==
    /\ t \in DOMAIN sub.tasks
    /\ sub.tasks[t].status = "running"
    /\ ~sub.managers[sub.tasks[t].manager].client
    /\ ~sub.managers[sub.tasks[t].manager].should_reconnect
    /\ sub' = [sub EXCEPT !.tasks[t].status = "done"]
    /\ UNCHANGED <<mqtt, listenRest>>

InitLifecycle ==
    /\ InitBuild
    /\ rt = RtOff
    /\ http = NoHttp
    /\ mqtt = NoMqtt
    /\ pub = NoPub
    /\ mapper = NoMapper
    /\ parked = <<>>
    /\ sub = SubscriberLifecycle

LifecycleCalls == 1..(MaxStarts + MaxStops)

NextLifecycle ==
    \/ start
    \/ \E c \in LifecycleCalls, connected \in BOOLEAN : started(c, connected)
    \/ stop
    \/ \E c \in LifecycleCalls : stop_awaited(c)
    \/ \E c \in LifecycleCalls : stopped(c)
    \/ \E t \in 1..MaxStarts : listen_ends(t)

SpecLifecycle == InitLifecycle /\ [][NextLifecycle]_vars

(***************************************************************************)
(* SpecPublisher: an MQTTPublisherNode, its start/stop and its update      *)
(***************************************************************************)

\* At most this many events are given to the publisher.
MaxUpdates == 1

\* publish_settings of the merged configuration
PublishSettings(default_topic, default_qos, retain) ==
    [default_topic |-> default_topic, default_qos |-> default_qos,
     retain |-> retain]

\* default_topic = "dev/cmd" with the defaults of the constructor; the
\* defaults of the constructor alone (no default topic); other defaults.
PublishConfigs ==
    {PublishSettings("dev/cmd", 1, FALSE),
     PublishSettings(NoNode, 1, FALSE),
     PublishSettings("dev/all", 0, TRUE)}

\* The data of the events given to the publisher.
PublishDatas ==
    {Dict([x |-> 1]),
     Dict([topic |-> "devices/s1/command",
           payload |-> Dict([action |-> "restart"]), qos |-> 2,
           retain |-> TRUE]),
     Dict([topic |-> "devices/s1/command", payload |-> Text("on")]),
     Dict([payload |-> Text("on"), qos |-> 0]),
     Dict([topic |-> "devices/s1/command", retain |-> TRUE]),
     Dict([topic |-> "", payload |-> Text("on")]),
     Dict([payload |-> Opaque]),
     Text("on")}

PublishEvents ==
    {GraphEvent(t, d, "src") :
        t \in {"MQTT_PUBLISH", "DATA_CHANGE"}, d \in PublishDatas}

\* What the broker does with a publish: accepts it, aiomqtt.MqttError
\* (refused, or the connection is gone), or any other exception.
PublishOutcomes == {"ok", "mqtt_error", "other"}

\* How start()'s connect() ends: connected; an exception; or a return
\* without a connection (max_retries = 0).
StartOutcomes == {"connected", "raised", "unconnected"}

\* MQTTPublisherNode.__init__
MqttPublisherNode(settings) ==
    [pc |-> "idle", id |-> "p1", cfg |-> settings, state |-> "IDLE",
     is_running |-> FALSE,
     connection_manager |-> FALSE, client |-> FALSE, is_connected |-> FALSE,
     event |-> NoEvent, updates |-> 0, requests |-> <<>>, sent |-> <<>>,
     emitted |-> <<>>, last |-> "none"]

pubRest == <<nodes, global_middleware, cfgVars, edgeVars, nodeVars, heap,
             stack, clock, triggers, received, calls, ret, outcome, rt,
             http, mqtt, sub, mapper, parked>>

\* MQTTPublisherNode.start
pub_start(o) ==
    /\ pub.pc = "idle"
    /\ pub' = IF pub.is_running THEN [pub EXCEPT !.last = "already_running"]
              ELSE CASE o = "connected" ->
                          [pub EXCEPT !.connection_manager = TRUE,
                                      !.client = TRUE, !.is_connected = TRUE,
                                      !.is_running = TRUE,
                                      !.last = "started"]
                     [] o = "unconnected" ->
                          [pub EXCEPT !.connection_manager = TRUE,
                                      !.client = FALSE,
                                      !.is_connected = FALSE,
                                      !.is_running = TRUE,
                                      !.last = "started"]
                     [] OTHER ->
                          [pub EXCEPT !.connection_manager = TRUE,
                                      !.client = FALSE,
                                      !.is_connected = FALSE,
                                      !.last = "start_raised"]
    /\ UNCHANGED pubRest

\* MQTTPublisherNode.stop, with the disconnect() of its manager
pub_stop ==
    /\ pub.pc = "idle"
    /\ pub' = IF ~pub.is_running THEN [pub EXCEPT !.last = "stop_noop"]
              ELSE [pub EXCEPT !.is_running = FALSE,
                               !.connection_manager = FALSE,
                               !.client = FALSE, !.is_connected = FALSE,
                               !.last = "stopped"]
    /\ UNCHANGED pubRest

\* dict.get(key, default)
Get(d, key, default) == IF key \in DOMAIN d THEN d[key] ELSE default

\* A slip: a missing payload is taken from the configuration, which has none.
ExtractPublishParamsNoPayload(settings, data) ==
    IF data.kind # "dict"
    THEN [topic |-> settings.default_topic, payload |-> data,
          qos |-> settings.default_qos, retain |-> settings.retain]
    ELSE [topic |-> Get(data.value, "topic", settings.default_topic),
          payload |-> Get(data.value, "payload", Text(NoNode)),
          qos |-> Get(data.value, "qos", settings.default_qos),
          retain |-> Get(data.value, "retain", settings.retain)]

\* MQTTPublisherNode._extract_publish_params
ExtractPublishParams(settings, data) ==
    IF data.kind # "dict"
    THEN [topic |-> settings.default_topic, payload |-> data,
          qos |-> settings.default_qos, retain |-> settings.retain]
    ELSE [topic |-> Get(data.value, "topic", settings.default_topic),
          payload |-> Get(data.value, "payload", data),
          qos |-> Get(data.value, "qos", settings.default_qos),
          retain |-> Get(data.value, "retain", settings.retain)]

\* update: the parameters of the publish, by the type of the event.
PublishParams(settings, event) ==
    IF event.type = "MQTT_PUBLISH"
    THEN ExtractPublishParams(settings, event.data)
    ELSE [topic |-> settings.default_topic, payload |-> event.data,
          qos |-> settings.default_qos, retain |-> settings.retain]

\* `not topic`
NoTopic(topic) == topic \in {NoNode, ""}

\* json.dumps raises TypeError for this payload.
Unserializable(payload) ==
    \/ payload.kind = "object"
    \/ /\ payload.kind = "dict"
       /\ \E k \in DOMAIN payload.value :
             /\ k \in {"payload"}
             /\ payload.value[k].kind = "object"

\* MQTTConnectionManager.publish: the conversion of the payload to bytes.
PayloadBytes(payload) ==
    CASE payload.kind = "str" -> Bytes("utf-8", payload)
      [] payload.kind = "bytes" -> payload
      [] OTHER -> Bytes("json+utf-8", payload)

\* MQTTConnectionManager.publish: `await self._client.publish(...)` is
\* reached and the broker takes the message.
BrokerAccepts(p, params, o) ==
    /\ p.client
    /\ p.is_connected
    /\ ~Unserializable(params.payload)
    /\ o = "ok"

\* A slip: a refused publish is reported as a success.
ManagerPublishAlwaysTrue(p, params, o) ==
    IF ~p.client \/ ~p.is_connected THEN "True"
    ELSE IF Unserializable(params.payload) \/ o = "other" THEN "raise"
    ELSE "True"

\* MQTTConnectionManager.publish: "True", "False", or "raise" when an
\* exception other than aiomqtt.MqttError leaves it.
ManagerPublish(p, params, o) ==
    IF ~p.client \/ ~p.is_connected THEN "False"
    ELSE IF Unserializable(params.payload) \/ o = "other" THEN "raise"
    ELSE IF o = "ok" THEN "True"
    ELSE "False"

\* The COMPUTATION_RESULT event of a successful publish.
PublishedEvent(params, node_id, metadata) ==
    WithMetadata(
        GraphEvent("COMPUTATION_RESULT",
                   [kind |-> "dict", status |-> "published",
                    topic |-> params.topic, qos |-> params.qos,
                    retain |-> params.retain],
                   node_id),
        DictMerge({Item("status", "success"),
                   Item("operation", "mqtt_publish")}, metadata))

\* The host disables the publisher: node.state = NodeState.DISABLED.
pub_disable ==
    /\ pub.pc = "idle"
    /\ pub.state # "DISABLED"
    /\ pub' = [pub EXCEPT !.state = "DISABLED"]
    /\ UNCHANGED pubRest

\* MQTTPublisherNode.update(event); o is what the broker does.
pub_update(event, o) ==
    /\ pub.pc = "idle"
    /\ pub.updates < MaxUpdates
    /\ LET got == [pub EXCEPT !.updates = @ + 1, !.event = event,
                              !.last = "update"]
           params == PublishParams(pub.cfg, event)
           success == ManagerPublish(pub, params, o)
           message == [topic |-> params.topic,
                       payload |-> PayloadBytes(params.payload),
                       qos |-> params.qos, retain |-> params.retain]
           asked == [got EXCEPT
                       !.requests = Append(@, params),
                       !.sent = IF BrokerAccepts(pub, params, o)
                                THEN Append(@, message) ELSE @]
       IN pub' =
            IF ~pub.is_running \/ ~pub.connection_manager THEN got
            ELSE IF NoTopic(params.topic)
            THEN [got EXCEPT !.emitted = Append(@, create_error_event(
                     "No topic specified for publish", event, pub.id))]
            ELSE CASE success = "True" ->
                        [asked EXCEPT !.emitted = Append(@,
                            PublishedEvent(params, pub.id, event.metadata))]
                   [] success = "False" ->
                        [asked EXCEPT !.emitted = Append(@,
                            create_error_event(
                              "Failed to publish message - not connected",
                              event, pub.id))]
                   [] OTHER ->
                        [asked EXCEPT !.emitted = Append(@,
                            create_error_event("exception", event, pub.id))]
    /\ UNCHANGED pubRest

InitPublisher ==
    /\ InitBuild
    /\ rt = RtOff
    /\ http = NoHttp
    /\ mqtt = NoMqtt
    /\ sub = NoSub
    /\ mapper = NoMapper
    /\ parked = <<>>
    /\ \E settings \in PublishConfigs : pub = MqttPublisherNode(settings)

NextPublisher ==
    \/ \E o \in StartOutcomes : pub_start(o)
    \/ pub_stop
    \/ pub_disable
    \/ \E event \in PublishEvents, o \in PublishOutcomes : pub_update(event, o)

SpecPublisher == InitPublisher /\ [][NextPublisher]_vars

(***************************************************************************)
(* SpecMapper: a MapperProcessor in object mode and its process() calls    *)
(***************************************************************************)

\* At most this many process() calls are followed.
MaxProcessCalls == 1

\* None, and the path expressions of the mappings.
Null == [kind |-> "null"]
IsNone(v) == v.kind = "null"

\* One entry of config["mappings"]; a default of None and a mapping without
\* "default" are the same to mapping.get("default"), and transform "none"
\* stands for a mapping without "transform".
Mapping(source, target, default, required, transform) ==
    [source |-> source, target |-> target, default |-> default,
     required |-> required, transform |-> transform]

\* config["error_handling"]
ErrorHandling(on_missing_required, on_transform_error) ==
    [on_missing_required |-> on_missing_required,
     on_transform_error |-> on_transform_error]

\* MapperProcessor.__init__
MapperProcessor(mappings, error_handling) ==
    [pc |-> "idle", mode |-> "object", mappings |-> mappings,
     error_handling |-> error_handling, process_calls |-> 0,
     event |-> Null, returned |-> Null]

\* compiled.search(data): the input is given by the values its paths
\* resolve to; a path that resolves to nothing, or to null, gives None.
Search(source, data) == IF source \in DOMAIN data THEN data[source] ELSE Null

MissingRequiredFieldError == [kind |-> "MissingRequiredFieldError"]
MappingError == [kind |-> "MappingError"]

\* MapperProcessor._extract_value
ExtractValue(data, mapping) ==
    LET value == Search(mapping.source, data) IN
    IF IsNone(value)
    THEN IF mapping.required THEN MissingRequiredFieldError
         ELSE mapping.default
    ELSE value

\* str(v), str(v).upper() and int(v), for the values of the model.
Str(v) == IF v.kind = "num" THEN ToString(v.value) ELSE v.value
Upper(str) ==
    CASE str = "ada" -> "ADA" [] str = "n/a" -> "N/A" [] OTHER -> str
IntOf(v) ==
    CASE v.kind = "num" -> v
      [] v.kind = "str" /\ v.value = "7" -> Num(7)
      [] OTHER -> [kind |-> "ValueError"]

\* MapperProcessor._apply_transform
ApplyTransform(value, transform, error_handling) ==
    IF IsNone(value) THEN Null
    ELSE IF transform \notin {"string", "integer", "uppercase"} THEN value
    ELSE LET r == CASE transform = "string" -> Text(Str(value))
                    [] transform = "uppercase" -> Text(Upper(Str(value)))
                    [] OTHER -> IntOf(value)
         IN IF r.kind # "ValueError" THEN r
            ELSE CASE error_handling.on_transform_error = "error" ->
                         MappingError
                   [] error_handling.on_transform_error = "original" -> value
                   [] OTHER -> Null

\* MapperProcessor._set_nested_value, for results given by the values of
\* their dotted paths.
SetNestedValue(obj, path, value) == (path :> value) @@ obj

\* A slip: "null" is treated like "skip".
OnMissingRequiredNoNull(error_handling) ==
    IF error_handling.on_missing_required = "error" THEN "raise" ELSE "skip"

\* The except branch of _process_object: re-raise, set the target to None,
\* or leave the target out.
OnMissingRequired(error_handling) ==
    CASE error_handling.on_missing_required = "error" -> "raise"
      [] error_handling.on_missing_required = "null" -> "null"
      [] OTHER -> "skip"

RECURSIVE ProcessObject(_, _, _, _, _)
\* MapperProcessor._process_object, from the k-th mapping with the result
\* built so far: the result, or the MappingError that was raised.
ProcessObject(mappings, error_handling, data, k, result) ==
    IF k > Len(mappings) THEN [kind |-> "dict", value |-> result]
    ELSE
    LET mapping == mappings[k]
        extracted == ExtractValue(data, mapping)
        next(r) == ProcessObject(mappings, error_handling, data, k + 1, r)
    IN
    IF extracted = MissingRequiredFieldError
    THEN CASE OnMissingRequired(error_handling) = "raise" -> MappingError
           [] OnMissingRequired(error_handling) = "null" ->
                 next(SetNestedValue(result, mapping.target, Null))
           [] OTHER -> next(result)
    ELSE
    LET value == IF mapping.transform # "none" /\ ~IsNone(extracted)
                 THEN ApplyTransform(extracted, mapping.transform,
                                     error_handling)
                 ELSE extracted
    IN IF value = MappingError THEN MappingError
       ELSE IF ~IsNone(value) \/ ~IsNone(mapping.default)
       THEN next(SetNestedValue(result, mapping.target,
                                IF ~IsNone(value) THEN value
                                ELSE mapping.default))
       ELSE next(result)

\* MapperProcessor.process in object mode
MapperProcess(mp, event, node_id) ==
    LET result == ProcessObject(mp.mappings, mp.error_handling, event.data,
                                1, <<>>)
    IN IF result = MappingError
       THEN GraphEvent("ERROR",
                       [kind |-> "dict", error |-> "MappingError",
                        original_data |-> event.data], node_id)
       ELSE GraphEvent("COMPUTATION_RESULT", result, node_id)

mapperRest == <<nodes, global_middleware, cfgVars, edgeVars, nodeVars, heap,
                stack, clock, triggers, received, calls, ret, outcome, rt,
                http, mqtt, sub, pub, parked>>

\* await processor.process(event, context), for an event with the data.
mapper_process(data) ==
    /\ mapper.pc = "idle"
    /\ mapper.process_calls < MaxProcessCalls
    /\ LET event == GraphEvent("DATA_CHANGE", data, "") IN
       mapper' = [mapper EXCEPT
                     !.process_calls = @ + 1,
                     !.event = event,
                     !.returned = MapperProcess(mapper, event, "a")]
    /\ UNCHANGED mapperRest

\* The mappings of the model: user.name -> n and user.email -> e, each
\* required or not, with or without a default, with or without a transform.
NameMappings ==
    {Mapping("user.name", "n", d, r, t) :
        d \in {Null, Text("n/a")}, r \in BOOLEAN,
        t \in {"none", "uppercase", "integer"}}
EmailMappings ==
    {Mapping("user.email", "e", d, r, t) :
        d \in {Null, Text("n/a"), Num(0)}, r \in BOOLEAN,
        t \in {"none", "uppercase", "integer", "rot13"}}

ErrorHandlings ==
    {ErrorHandling(m, t) : m \in {"error", "skip", "null"},
                           t \in {"error", "skip", "original"}}

\* The inputs: {user: {name, email}} with both, one or none of the leaves,
\* and with a null leaf.
MapperInputs ==
    {("user.name" :> Text("ada")) @@ ("user.email" :> Text("7")),
     ("user.name" :> Text("ada")),
     ("user.email" :> Text("a@x")),
     ("user.name" :> Num(7)) @@ ("user.email" :> Null),
     <<>>}

InitMapper ==
    /\ InitBuild
    /\ rt = RtOff
    /\ http = NoHttp
    /\ mqtt = NoMqtt
    /\ sub = NoSub
    /\ pub = NoPub
    /\ parked = <<>>
    /\ \E m1 \in NameMappings, m2 \in EmailMappings, eh \in ErrorHandlings :
          mapper = MapperProcessor(<<m1, m2>>, eh)

NextMapper == \E data \in MapperInputs : mapper_process(data)

SpecMapper == InitMapper /\ [][NextMapper]_vars

(***************************************************************************)
(* Properties of the edge and registry operations                          *)
(***************************************************************************)

\* C7: after any sequence of ObserverGraph.add_edge, add_edge_to and
\* remove_edge_to calls, for all nodes A and B: B is in A.outgoing iff A is
\* in B.incoming iff B is in A.observers.
C7_EdgesAgree ==
    \A a, b \in Node :
        /\ (b \in outgoing_edges[a]) <=> (a \in incoming_edges[b])
        /\ (b \in outgoing_edges[a]) <=> (b \in observers[a])

\* A graph with a two-cycle and a self-loop in which an edge is absent
\* although both its ends have other edges.
C7_Witness ==
    /\ outgoing_edges["n1"] = {"n2"}
    /\ outgoing_edges["n2"] = {"n1"}
    /\ outgoing_edges["n3"] = {"n3"}
    /\ incoming_edges["n3"] = {"n3"}
    /\ observers["n1"] = {"n2"}

Restored ==
    /\ outgoing_edges[rt.s] = rt.out
    /\ incoming_edges[rt.t] = rt.inc
    /\ observers[rt.s] = rt.obs

\* C8 as stated: from every reachable pre-state, s.add_edge_to(t) followed
\* by s.remove_edge_to(t) leaves s.outgoing, t.incoming and s.observers as
\* they were before the two calls.
C8_Original == rt.stage = 2 => Restored

\* C8 amended: the round trip restores the three collections when, before
\* the two calls, t was not in s.outgoing, s not in t.incoming and t not in
\* s.observers.
C8_RoundTripFromAbsent ==
    (/\ rt.stage = 2
     /\ rt.t \notin rt.out
     /\ rt.s \notin rt.inc
     /\ rt.t \notin rt.obs) => Restored

\* A completed round trip on an absent edge of a node that already had
\* another observer.
C8_Witness ==
    /\ rt.stage = 2
    /\ rt.t \notin rt.out
    /\ rt.s \notin rt.inc
    /\ rt.t \notin rt.obs
    /\ rt.obs # {}
    /\ rt.s # rt.t

\* C9: when a middleware M has been registered globally exactly once, every
\* node registered in the graph, added before or after M, has exactly one
\* occurrence of M in its middleware list.
C9_GlobalMiddlewareOnce ==
    \A m \in GlobalMw :
        Count(m, global_middleware) = 1 =>
            \A n \in Node : Registered(n) => Count(m, middleware[n]) = 1

\* Two global middleware, each registered once, and two registered nodes,
\* one of which also carries a middleware of its own.
C9_Witness ==
    /\ Count("m1", global_middleware) = 1
    /\ Count("m2", global_middleware) = 1
    /\ Registered("n1")
    /\ Registered("n2")
    /\ Len(middleware["n2"]) = 3

\* C10: add_node(n) with an id that is already registered fails with an
\* error and leaves the registry and every node's middleware list (that of
\* the rejected node included) unchanged; an id, once registered, keeps the
\* node it maps to, and that node carries this id.
C10_DuplicateRejected ==
    [][/\ \A n \in Node :
            (add_node(n) /\ nodes[id[n]] # NoNode) =>
                /\ outcome' = Raised("add_node", n, "ValueError")
                /\ nodes' = nodes
                /\ middleware' = middleware
       /\ \A i \in NodeIds :
            /\ nodes[i] # NoNode => nodes'[i] = nodes[i]
            /\ nodes'[i] # NoNode => id[nodes'[i]] = i]_vars

\* n3, constructed with the id of the registered n1, has just been rejected
\* while a global middleware was registered.
C10_Witness ==
    /\ outcome = Raised("add_node", "n3", "ValueError")
    /\ nodes["a"] = "n1"
    /\ global_middleware # <<>>
    /\ middleware["n3"] = <<>>

(***************************************************************************)
(* Properties of update, notify_observers and trigger_event                *)
(***************************************************************************)

\* C1 as stated: when N.update(E) returns, N.state is IDLE or ERROR,
\* whatever N.state was before the call and whether or not E passes N's
\* filters.
C1_Original == ret.kind = "return" => state[ret.node] \in {"IDLE", "ERROR"}

\* C1 amended: when N.update(E) returns, N.state is IDLE or ERROR if N was
\* not DISABLED at the call and no filter of N returned false for E;
\* otherwise N.state is what it was before the call.
C1_StateAfterUpdate ==
    ret.kind = "return" =>
        IF ret.state0 # "DISABLED" /\ ~ret.rejected
        THEN state[ret.node] \in {"IDLE", "ERROR"}
        ELSE state[ret.node] = ret.state0

\* An update that was called while its node was PROCESSING (re-entered
\* through a cycle), failed, and has returned.
C1_Witness ==
    /\ ret.kind = "return"
    /\ ret.state0 = "PROCESSING"
    /\ ret.accepted
    /\ ret.failed
    /\ state[ret.node] = "ERROR"

\* C2: if the node is DISABLED, or one of its filter predicates returns
\* false for the event, update returns and nothing has changed: no node's
\* state, metrics or history, no event, and no hook, processor or observer
\* was invoked.
C2_DroppedNoEffect ==
    (ret.kind # "none" /\ (ret.state0 = "DISABLED" \/ ret.rejected)) =>
        /\ ret.kind = "return"
        /\ ~ret.accepted
        /\ state = ret.pre.state
        /\ metrics = ret.pre.metrics
        /\ event_history = ret.pre.event_history
        /\ heap = ret.pre.heap
        /\ clock = ret.pre.clock
        /\ calls = ret.pre.calls
        /\ \A n \in Node :
              Len(received[n]) = Len(ret.pre.received[n])
                                   + (IF n = ret.node THEN 1 ELSE 0)

\* A DISABLED observer that has observers of its own has just dropped an
\* event fanned out to it.
C2_Witness ==
    /\ ret.kind = "return"
    /\ ret.state0 = "DISABLED"
    /\ ret.from # NoNode
    /\ observers[ret.node] # {}

ErrorDeliveredOnce ==
    /\ \A o \in Node :
          Cardinality({k \in DOMAIN ret.deliv : ret.deliv[k].to = o})
            = (IF o \in observers[ret.node] THEN 1 ELSE 0)
    /\ \A k \in DOMAIN ret.deliv :
          /\ heap[ret.deliv[k].ev].type = "ERROR"
          /\ heap[ret.deliv[k].ev].data
               = ErrorData(ret.msg, heap[ret.event].data)

\* C3 as stated: when a middleware hook or the selected processor raised
\* during update(E), then on return errors has grown by exactly 1, the state
\* is ERROR, and every observer has been delivered exactly one event, an
\* ERROR event with data {error, original_request: E.data}, and no result
\* event.
C3_Original ==
    (ret.kind = "return" /\ ret.accepted /\ ret.failed) =>
        /\ metrics[ret.node].errors = ret.errors0 + 1
        /\ state[ret.node] = "ERROR"
        /\ ErrorDeliveredOnce

\* C3 restricted to updates whose node was not re-entered while they ran.
C3_WhenNotReentered ==
    (ret.kind = "return" /\ ret.accepted /\ ret.failed /\ ~ret.reentered) =>
        /\ metrics[ret.node].errors = ret.errors0 + 1
        /\ state[ret.node] = "ERROR"
        /\ ErrorDeliveredOnce

\* C4 as stated: trigger_event returns normally to its caller, whatever a
\* filter, hook, processor or observer of the pipeline raises.
C4_Original == outcome.op = "trigger_event" => outcome.exc # "Exception"

\* The graph of the end-to-end scenario, with every node enabled, after one
\* trigger on double has run to completion.
DiamondDone ==
    /\ processors["n3"] = <<"add_ten">>
    /\ stack = <<>>
    /\ Len(received["n1"]) = 1
    /\ \A n \in Node : state[n] # "DISABLED"

\* C5: one call of notify_observers(E) invokes update(E) exactly once on
\* every observer, also when some of these invocations raise, and the
\* update that fans out does not raise; in the diamond
\* double -> {add_ten, add_ten2} -> result one trigger makes result receive
\* exactly two events (each with data 2v + 10).
C5_EachObserverOnce ==
    /\ (ret.kind # "none" /\ ret.notified) =>
          /\ ret.kind = "return"
          /\ \A o \in Node :
                Cardinality({k \in DOMAIN ret.deliv : ret.deliv[k].to = o})
                  = (IF o \in ret.targets THEN 1 ELSE 0)
          /\ \A k \in DOMAIN ret.deliv : ret.deliv[k].ev = ret.emitted
    /\ DiamondDone =>
          /\ Len(received["n4"]) = 2
          /\ \A k \in DOMAIN received["n4"] :
                /\ received["n4"][k].type = "COMPUTATION_RESULT"
                /\ received["n4"][k].data
                     = Num(received["n1"][1].data.value * 2 + 10)

\* A fan-out to two observers, the first of which raised.
C5_Witness ==
    /\ ret.kind = "return"
    /\ ret.notified
    /\ Cardinality(ret.targets) = 2
    /\ Len(ret.deliv) = 2
    /\ ret.deliv[1].out = "raise"

\* The diamond has run: result has received 20 twice.
C5_DiamondWitness ==
    /\ DiamondDone
    /\ Len(received["n4"]) = 2
    /\ received["n4"][1].data = Num(20)
    /\ received["n4"][2].data = Num(20)

\* C6 as stated: every event node X fans out is received by each observer
\* of X with source_id = X.id at the moment that observer's update is
\* invoked.
C6_Original ==
    \A n \in Node : \A k \in DOMAIN received[n] :
        received[n][k].from # NoNode =>
            received[n][k].src = id[received[n][k].from]

\* C11: trigger_event(node_id, event) with a node_id that is not
\* registered returns without error and changes nothing: no node's state,
\* metrics or history changes and no update is invoked.
C11_UnknownNodeNoOp ==
    [][\A i \in NodeIds, data \in Inputs, res \in FilterResults :
          (trigger_event(i, "DATA_CHANGE", data, res) /\ nodes[i] = NoNode) =>
              /\ outcome' = Trigger("none")
              /\ state' = state
              /\ metrics' = metrics
              /\ event_history' = event_history
              /\ fanned_out' = fanned_out
              /\ received' = received
              /\ calls' = calls
              /\ stack' = <<>>]_vars

\* An event has been triggered on an id that names no node of a graph with
\* edges, and no node was asked to update.
C11_Witness ==
    /\ triggers = 1
    /\ outcome = Trigger("none")
    /\ \A n \in Node : received[n] = <<>>
    /\ observers["n1"] # {}
    /\ heap # <<>>

\* The last k elements of a sequence.
LastN(s, k) == SubSeq(s, Len(s) - k + 1, Len(s))

\* C12: in every reachable state each node's event history holds at most
\* 100 events, and it equals the last min(n, 100) of the n events the node
\* has fanned out, in emission order (the oldest entry is the one evicted
\* when the 101st is appended).
C12_HistoryLastHundred ==
    \A n \in Node :
        LET k == IF Len(fanned_out[n]) < 100 THEN Len(fanned_out[n]) ELSE 100
        IN /\ Len(event_history[n]) <= 100
           /\ event_history[n] = LastN(fanned_out[n], k)

\* A node has fanned out 102 events: the first two have been evicted and
\* the history starts with the third.
C12_Witness ==
    /\ Len(fanned_out["n1"]) = 102
    /\ Len(event_history["n1"]) = 100
    /\ event_history["n1"][1] = 3
    /\ event_history["n1"][100] = 102

NothingFannedOut ==
    /\ ~ret.notified
    /\ ret.deliv = <<>>
    /\ metrics[ret.node].events_sent = ret.sent0
    /\ event_history[ret.node] = ret.hist0

SwitchReturned ==
    /\ stack # <<>>
    /\ top.pc = "after"
    /\ top.i = 1
    /\ top.h # 0
    /\ processors[top.node][top.h] = "switch"

\* The condition of a rule is truthy on the data.
Truthy(rule, data) ==
    \/ rule.condition.op = ">" /\ data.value > rule.condition.c
    \/ rule.condition.op = "<=" /\ data.value <= rule.condition.c

\* The positions of the rules that match the data.
Matching(rules, data) == {k \in DOMAIN rules : Truthy(rules[k], data)}

WellFormed(rules) == \A k \in DOMAIN rules : rules[k].kind = "rule"

\* One trigger on the switch of the example has run to completion with
\* every node enabled.
ExampleDone(v) ==
    /\ config["n1"] = ExampleConfig
    /\ node_class["n1"] = "SwitchNode"
    /\ stack = <<>>
    /\ Len(received["n1"]) = 1
    /\ received["n1"][1].data = Obj(v)
    /\ \A n \in Node : state[n] # "DISABLED"

C14_ExampleWitness == ExampleDone(7) /\ received["n2"] # <<>>

\* C15 as stated: for every ROUTING_DECISION event emitted by a SwitchNode,
\* update is invoked on an observer only if that observer's id equals
\* event.data.target_node; when target_node is null or names no observer,
\* no observer receives it.
C15_Original ==
    \A n \in Node : \A k \in DOMAIN received[n] :
        (/\ received[n][k].from # NoNode
         /\ node_class[received[n][k].from] # "BaseNode"
         /\ received[n][k].type = "ROUTING_DECISION") =>
            id[n] = received[n][k].data.target_node

\* C15 for the SwitchNode that overrides notify_observers.
C15_OverridingSwitchNode ==
    \A n \in Node : \A k \in DOMAIN received[n] :
        (/\ received[n][k].from # NoNode
         /\ node_class[received[n][k].from] = "SwitchNode"
         /\ received[n][k].type = "ROUTING_DECISION") =>
            id[n] = received[n][k].data.target_node

\* The evaluation of a rule that the processor reached has raised.
EvaluationRaised(rules, data) ==
    \E k \in DOMAIN rules :
        /\ rules[k].condition.op = "raise"
        /\ \A j \in Matching(rules, data) : k < j

\* C16 as stated: if the evaluation of a rule's condition against
\* event.data raises an exception, the SwitchNode emits an ERROR-typed event
\* for that input event.
C16_Original ==
    (/\ SwitchReturned
     /\ WellFormed(config[top.node].rules)
     /\ EvaluationRaised(config[top.node].rules, heap[top.processed].data))
        => heap[top.result].type = "ERROR"

(***************************************************************************)
(* Properties of the HTTP request processors                               *)
(***************************************************************************)

Retryable == {"timeout", "client_error"}

HttpValid == ValidateRequestData(http.event.data)

\* The number of attempts made so far.
Attempts == Len(http.outcomes)

C17_ExhaustedWitness ==
    /\ http.pc = "done"
    /\ http.outcomes = <<"timeout", "timeout", "timeout">>
    /\ http.result.type = "ERROR"

\* C18 as stated: for every configured value of retries (including 0) and
\* every sequence of attempt outcomes, process returns a non-null event for
\* a valid request: COMPUTATION_RESULT if an attempt succeeded, otherwise
\* ERROR.
C18_Original ==
    (http.pc = "done" /\ HttpValid) =>
        IF \E k \in 1..Attempts : http.outcomes[k] = "ok"
        THEN http.result.type = "COMPUTATION_RESULT"
        ELSE http.result.type = "ERROR"

\* C18 for processors configured with at least one retry.
C18_WhenRetriesPositive ==
    (http.pc = "done" /\ HttpValid /\ http.retries >= 1) =>
        IF \E k \in 1..Attempts : http.outcomes[k] = "ok"
        THEN http.result.type = "COMPUTATION_RESULT"
        ELSE http.result.type = "ERROR"

(***************************************************************************)
(* Properties of MQTTConnectionManager.connect                             *)
(***************************************************************************)

\* min(retry_delay * backoff^(n-1), max_retry_delay)
BackoffDelay(cfg, n) ==
    LET d == cfg.retry_delay * Pow(cfg.retry_backoff, n - 1)
    IN IF d < cfg.max_retry_delay THEN d ELSE cfg.max_retry_delay

\* Every attempt made so far has failed with a broker error.
AllFailed ==
    \A k \in DOMAIN mqtt.outcomes :
        mqtt.outcomes[k] \in {"connect_error", "subscribe_error"}

\* Every attempt made so far was refused while connecting.
AllRefused ==
    \A k \in DOMAIN mqtt.outcomes : mqtt.outcomes[k] = "connect_error"

\* connect() has raised its terminal error.
TerminalError == mqtt.pc = "raised" /\ mqtt.exc = "ConnectionError"

\* C19 as stated: the delay waited after the n-th consecutive failed
\* attempt is min(retry_delay * backoff^(n-1), max_retry_delay); with
\* retry_delay = 1, backoff = 2, max_retry_delay = 10, max_retries = 5 and
\* every attempt failing, the delays waited are 1, 2, 4, 8, 10 in that
\* order.
C19_Original ==
    /\ AllFailed =>
          \A n \in DOMAIN mqtt.delays :
              mqtt.delays[n] = BackoffDelay(mqtt.cfg, n)
    /\ (mqtt.cfg = ExampleRetrySettings /\ AllFailed /\ TerminalError) =>
          mqtt.delays = <<1, 2, 4, 8, 10>>

\* What holds when every attempt is refused while connecting: the n-th
\* delay waited follows the formula, and one delay fewer is waited than
\* attempts are made (the delay computed after the last failure is not
\* waited).
C19_WhenRefused ==
    AllRefused =>
        /\ \A n \in DOMAIN mqtt.delays :
              mqtt.delays[n] = BackoffDelay(mqtt.cfg, n)
        /\ \A n \in DOMAIN mqtt.computed :
              mqtt.computed[n] = BackoffDelay(mqtt.cfg, n)
        /\ TerminalError =>
              /\ Len(mqtt.delays) = mqtt.cfg.max_retries - 1
              /\ Len(mqtt.computed) = mqtt.cfg.max_retries
        /\ (mqtt.cfg = ExampleRetrySettings /\ TerminalError) =>
              /\ mqtt.delays = <<1, 2, 4, 8>>
              /\ mqtt.computed = <<1, 2, 4, 8, 10>>

\* C20 as stated: connect always terminates: if every attempt fails with a
\* broker error it makes exactly max_retries attempts and then raises a
\* terminal ConnectionError with no further attempt; if attempt
\* k <= max_retries succeeds it returns after k attempts with the attempt
\* counter reset to 0.
C20_Original ==
    (mqtt.pc # "none" /\ mqtt.cfg.hostname # NoNode) =>
        /\ Len(mqtt.outcomes) <= mqtt.cfg.max_retries
        /\ TerminalError =>
              /\ AllFailed
              /\ Len(mqtt.outcomes) = mqtt.cfg.max_retries
        /\ mqtt.pc = "returned" =>
              /\ mqtt.outcomes # <<>>
              /\ mqtt.outcomes[Len(mqtt.outcomes)] = "ok"
              /\ mqtt.reconnect_attempts = 0
              /\ mqtt.is_connected

\* C20 when at least one retry is configured and every failure happens
\* while connecting.
C20_WhenRefused ==
    (/\ mqtt.pc # "none"
     /\ mqtt.cfg.hostname # NoNode
     /\ mqtt.cfg.max_retries >= 1
     /\ \A k \in DOMAIN mqtt.outcomes : mqtt.outcomes[k] # "subscribe_error")
    =>
        /\ Len(mqtt.outcomes) <= mqtt.cfg.max_retries
        /\ TerminalError =>
              /\ AllFailed
              /\ Len(mqtt.outcomes) = mqtt.cfg.max_retries
        /\ mqtt.pc = "returned" =>
              /\ mqtt.outcomes # <<>>
              /\ mqtt.outcomes[Len(mqtt.outcomes)] = "ok"
              /\ mqtt.reconnect_attempts = 0
              /\ mqtt.is_connected


(***************************************************************************)
(* Properties of the MQTT listener and of the subscriber node              *)
(***************************************************************************)

\* The last attempt of the connect() call that has just ended succeeded.
BrokerAccepted ==
    /\ mqtt.outcomes # <<>>
    /\ mqtt.outcomes[Len(mqtt.outcomes)] = "ok"

\* C21: when the message stream of listen fails with a broker error,
\* is_connected becomes false and the disconnect callback is invoked once;
\* then, if reconnect_on_failure is true and disconnect() was not requested,
\* listen (after its pause) re-enters connect() and, if the broker accepts,
\* listens again with the configured topics subscribed; otherwise listen
\* returns, and a listen that has ended never connects again.
C21_ListenOnFailure ==
    [][/\ (sub.task = "messages" /\ sub'.task = "on_disconnect") =>
            /\ ~mqtt'.is_connected
            /\ sub'.disconnects = sub.disconnects + 1
       /\ (sub.task = "on_disconnect"
             /\ sub'.task \notin {"on_disconnect", "cancelled"}) =>
            /\ sub'.disconnects = sub.disconnects
            /\ IF mqtt.cfg.reconnect_on_failure /\ ~sub.requested
               THEN sub'.task = "sleep"
               ELSE sub'.task = "done"
       /\ (sub.task = "top" /\ sub.failures > 0 /\ sub'.task # "top") =>
            IF ~sub.requested
            THEN sub'.task = "connect" /\ mqtt'.pc = "idle"
            ELSE sub'.task = "done"
       /\ (sub.task = "connect" /\ sub'.task = "messages"
             /\ sub.failures > 0 /\ BrokerAccepted) =>
            /\ mqtt'.is_connected
            /\ mqtt'.open
            /\ mqtt'.subscribed = mqtt.cfg.topics
       /\ (Finished(sub.task) /\ sub'.starts = sub.starts) =>
            /\ sub'.task = sub.task
            /\ mqtt'.pc = mqtt.pc
            /\ mqtt'.outcomes = mqtt.outcomes
            /\ ~mqtt.open => ~mqtt'.open]_vars

\* After a failure of the stream the manager has connected again and is
\* delivering a message of its subscribed topic.
C21_Witness ==
    /\ sub.failures = 1
    /\ sub.disconnects = 1
    /\ sub.task = "deliver"
    /\ ~sub.requested
    /\ mqtt.subscribed = <<"sensors/#">>

\* listen has returned after a failure of the stream because disconnect()
\* had been requested, although reconnect_on_failure is true.
C21_ReturnedWitness ==
    /\ sub.failures = 1
    /\ sub.task = "done"
    /\ sub.requested
    /\ ~sub.node
    /\ mqtt.cfg.reconnect_on_failure


\* The listener task has ended and the node holds neither the task nor a
\* manager; the manager it held has no client.
Released(s, m) ==
    /\ ~s.is_running
    /\ s.task \in {"done", "cancelled"}
    /\ ~s.listener_task
    /\ ~s.connection_manager
    /\ ~m.client
    /\ ~m.open
    /\ ~m.should_reconnect

\* C22 as stated: after MQTTSubscriberNode.stop() returns from a running
\* state, is_running is false, the listener task has been cancelled and has
\* finished, the connection manager is disconnected and released, and the
\* node emits no MQTT_MESSAGE event until it is started again, wherever the
\* listen loop was when stop was called.
C22_Original ==
    [][/\ sub'.stopped => (Released(sub', mqtt') /\ ~mqtt'.is_connected)
       /\ (sub.stopped /\ sub'.stopped) =>
            sub'.messages = sub.messages]_vars

\* What holds of stop(): everything C22 states except that the manager's
\* is_connected flag is false.
C22_StopReleases ==
    [][/\ sub'.stopped => Released(sub', mqtt')
       /\ (sub.stopped /\ sub'.stopped) =>
            sub'.messages = sub.messages]_vars


(***************************************************************************)
(* Properties of the publisher node                                        *)
(***************************************************************************)

\* The step is an update(event) call on a running publisher.
RunningUpdate ==
    /\ pub'.updates = pub.updates + 1
    /\ pub.is_running
    /\ pub.connection_manager

\* data[key] when data is a dict with that key, else the default.
Field(data, key, default) ==
    IF data.kind = "dict" /\ key \in DOMAIN data.value
    THEN data.value[key] ELSE default

\* publish_settings has no entry for a payload.
ConfiguredPayload == [kind |-> "none", value |-> NoNode]

\* The parameters C23 prescribes for an event, with this fallback for an
\* absent payload.
Prescribed(settings, event, payload) ==
    IF event.type = "MQTT_PUBLISH"
    THEN [topic |-> Field(event.data, "topic", settings.default_topic),
          payload |-> Field(event.data, "payload", payload),
          qos |-> Field(event.data, "qos", settings.default_qos),
          retain |-> Field(event.data, "retain", settings.retain)]
    ELSE [topic |-> settings.default_topic, payload |-> event.data,
          qos |-> settings.default_qos, retain |-> settings.retain]

\* The last publish request made by the node.
LastRequest(p) == p.requests[Len(p.requests)]

\* C23 as stated: a running MQTTPublisherNode publishes, for an MQTT_PUBLISH
\* event, the topic, payload, qos and retain taken from event.data, each one
\* falling back to its configured default when absent; for any other event
\* type it publishes the whole event.data to default_topic with default_qos
\* and the default retain flag.
C23_Original ==
    [][(RunningUpdate /\ pub'.requests # pub.requests) =>
          LastRequest(pub') =
            Prescribed(pub.cfg, pub'.event, ConfiguredPayload)]_vars

\* C23 amended: for an MQTT_PUBLISH event whose data is a dict, topic, qos
\* and retain are taken from event.data and fall back to default_topic,
\* default_qos and the configured retain flag when their key is absent,
\* and the payload is event.data["payload"] or, when that key is absent,
\* the whole event.data; for an MQTT_PUBLISH event whose data is no dict
\* and for any other event type, the whole event.data is published with the
\* three defaults. The publish is made exactly when the topic so obtained
\* is neither null nor empty, and what the broker accepts is that topic,
\* qos and retain with the payload as bytes (a str UTF-8 encoded, anything
\* else as JSON).
C23_PublishParams ==
    [][RunningUpdate =>
        LET want == Prescribed(pub.cfg, pub'.event, pub'.event.data)
        IN /\ (pub'.requests # pub.requests) <=> ~NoTopic(want.topic)
           /\ pub'.requests # pub.requests =>
                pub'.requests = Append(pub.requests, want)
           /\ pub'.sent # pub.sent =>
                pub'.sent = Append(pub.sent,
                    [topic |-> want.topic, qos |-> want.qos,
                     retain |-> want.retain,
                     payload |->
                        IF want.payload.kind = "str"
                        THEN Bytes("utf-8", want.payload)
                        ELSE Bytes("json+utf-8", want.payload)])]_vars

\* The example: data {"x": 1} of an event that is no MQTT_PUBLISH, with
\* default_topic "dev/cmd", has been published to dev/cmd at QoS 1 as JSON.
C23_Witness ==
    /\ pub.cfg.default_topic = "dev/cmd"
    /\ pub.event.type = "DATA_CHANGE"
    /\ pub.sent = <<[topic |-> "dev/cmd", qos |-> 1, retain |-> FALSE,
                     payload |-> Bytes("json+utf-8", Dict([x |-> 1]))]>>

\* An MQTT_PUBLISH event without a payload key has been published: its own
\* topic and retain flag, the default qos, and the whole data as payload.
C23_NoPayloadWitness ==
    /\ pub.event.type = "MQTT_PUBLISH"
    /\ pub.event.data =
          Dict([topic |-> "devices/s1/command", retain |-> TRUE])
    /\ Len(pub.sent) = 1
    /\ pub.sent[1].topic = "devices/s1/command"
    /\ pub.sent[1].retain
    /\ pub.sent[1].qos = pub.cfg.default_qos
    /\ pub.sent[1].payload.of = pub.event.data


\* C24: for every event a running MQTTPublisherNode receives, it emits
\* exactly one event to its observers: COMPUTATION_RESULT if the broker
\* publish succeeded, ERROR otherwise (no topic resolved, publish refused or
\* lost connection, or an exception); a publisher that was never started or
\* has been stopped publishes nothing and emits nothing.
C24_OneEventPerUpdate ==
    [][pub'.updates = pub.updates + 1 =>
        IF pub.is_running
        THEN /\ Len(pub'.emitted) = Len(pub.emitted) + 1
             /\ pub'.emitted[Len(pub'.emitted)].type =
                  IF pub'.sent # pub.sent THEN "COMPUTATION_RESULT"
                  ELSE "ERROR"
             /\ pub'.emitted[Len(pub'.emitted)].source_id = pub.id
        ELSE /\ pub'.emitted = pub.emitted
             /\ pub'.requests = pub.requests
             /\ pub'.sent = pub.sent]_vars

\* A running publisher whose broker refused the publish has emitted one
\* ERROR event and published nothing.
C24_Witness ==
    /\ pub.is_running
    /\ pub.client
    /\ pub.updates = 1
    /\ Len(pub.requests) = 1
    /\ pub.sent = <<>>
    /\ Len(pub.emitted) = 1
    /\ pub.emitted[1].type = "ERROR"
    /\ pub.emitted[1].data.error =
          "Failed to publish message - not connected"

\* A publisher that has been stopped was given an event and did nothing.
C24_StoppedWitness ==
    /\ pub.last = "update"
    /\ ~pub.is_running
    /\ pub.updates = 1
    /\ pub.emitted = <<>>


(***************************************************************************)
(* Properties of the delivery order and of the pipeline of update          *)
(***************************************************************************)

\* The place of a node in the order in which the host adds the edges of a
\* source: main.py adds double -> add_ten before double -> add_ten2.
AddedAt(n) ==
    CASE n = "n1" -> 1 [] n = "n2" -> 2 [] n = "n3" -> 3 [] OTHER -> 4

\* C25 as stated: for a single triggering event the delivery order is
\* deterministic and depth-first: a node's observers are notified in the
\* order in which their edges were added (each one's downstream processing
\* being complete before the next is notified), so that the sequence of
\* update calls is the same on every run.
C25_Original ==
    (ret.kind = "return" /\ ret.accepted) =>
        \A i, j \in DOMAIN ret.deliv :
            i < j => AddedAt(ret.deliv[i].to) < AddedAt(ret.deliv[j].to)

\* What holds: every observer is notified after the one before it has
\* returned, in some order of the set.
C25_OneAfterTheOther ==
    \A k \in DOMAIN stack :
        /\ k < Len(stack) => stack[k].pc \in {"notify"}
        /\ k > 1 => stack[k].from = stack[k - 1].node

\* An update call of a LoRaWANDownlinkNode has returned, for an event whose
\* validation fails.
ValidationFailed ==
    /\ ret.kind = "return"
    /\ ret.accepted
    /\ node_class[ret.node] = "LoRaWANDownlinkNode"
    /\ ValidationErrors(config[ret.node], heap[ret.event].data) # {}

\* The number of HTTP requests the calls of a log posted is zero.
NoHttpAttempt(log) == \A k \in DOMAIN log : log[k].posts = 0

\* C26 as stated: when a LoRaWANDownlinkNode receives an event for which
\* its validation fails, the node fans out exactly one ERROR event to its
\* observers and makes no HTTP attempt.
C26_Original ==
    ValidationFailed =>
        /\ Len(fanned_out[ret.node]) = 1
        /\ heap[fanned_out[ret.node][1]].type = "ERROR"
        /\ ret.deliv # <<>>
        /\ NoHttpAttempt(ret.log)

\* What holds: no HTTP attempt is made and the processor is not called, but
\* nothing is fanned out: the ERROR event of the validation is offered to
\* the processor, which cannot handle it, and the result stays None.
C26_NothingFannedOut ==
    ValidationFailed =>
        /\ fanned_out[ret.node] = <<>>
        /\ ret.deliv = <<>>
        /\ heap[ret.log[1].out].type = "ERROR"
        /\ NoHttpAttempt(ret.log)
        /\ \A k \in DOMAIN ret.log : ret.log[k].hook # "process"


(***************************************************************************)
(* Properties of the mapper                                                *)
(***************************************************************************)

\* process() has returned; the k-th mapping, whether its source resolved to
\* nothing in the event given, and the result.
Mapped == mapper.pc = "idle" /\ mapper.process_calls > 0
MissingSource(k) ==
    IsNone(Search(mapper.mappings[k].source, mapper.event.data))
MappedOk == mapper.returned.type = "COMPUTATION_RESULT"
HasTarget(k) == mapper.mappings[k].target \in DOMAIN mapper.returned.data.value
TargetValue(k) == mapper.returned.data.value[mapper.mappings[k].target]

\* The k-th mapping can raise nothing: it has no transform and is not a
\* required mapping with a missing source.
Harmless(k) ==
    /\ mapper.mappings[k].transform = "none"
    /\ ~(mapper.mappings[k].required /\ MissingSource(k))

\* The required half of C27, for the k-th mapping: "error" makes process
\* return an ERROR event, "skip" omits the target while the other mappings
\* are still applied, "null" sets the target to null.
RequiredMissing(k) ==
    LET eh == mapper.error_handling IN
    (mapper.mappings[k].required /\ MissingSource(k)) =>
        /\ eh.on_missing_required = "error" =>
              mapper.returned.type = "ERROR"
        /\ eh.on_missing_required = "skip" =>
              /\ MappedOk => ~HasTarget(k)
              /\ \A j \in DOMAIN mapper.mappings :
                    (j # k /\ Harmless(j)) =>
                        /\ MappedOk
                        /\ ~MissingSource(j) =>
                              /\ HasTarget(j)
                              /\ TargetValue(j) =
                                     Search(mapper.mappings[j].source,
                                            mapper.event.data)
        /\ eh.on_missing_required = "null" =>
              (MappedOk => HasTarget(k) /\ IsNone(TargetValue(k)))

\* C27 as stated: in object mode, a mapping with required = true whose
\* source resolves to nothing is handled by on_missing_required ("error":
\* ERROR event; "skip": target omitted, other mappings applied; "null":
\* target set to null); a non-required missing source yields the mapping's
\* default when one is given and otherwise omits the target.
C27_Original ==
    Mapped =>
        \A k \in DOMAIN mapper.mappings :
            /\ RequiredMissing(k)
            /\ (~mapper.mappings[k].required /\ MissingSource(k) /\ MappedOk) =>
                  IF IsNone(mapper.mappings[k].default) THEN ~HasTarget(k)
                  ELSE /\ HasTarget(k)
                       /\ TargetValue(k) = mapper.mappings[k].default

\* What a default becomes on its way to the target: it goes through the
\* transform of the mapping; a transform that fails leaves it as it is, or
\* raises when on_transform_error is "error".
DefaultYields(mapping, error_handling) ==
    CASE mapping.transform = "uppercase" ->
            Text(Upper(Str(mapping.default)))
      [] mapping.transform = "integer" ->
            IF IntOf(mapping.default).kind # "ValueError"
            THEN IntOf(mapping.default)
            ELSE IF error_handling.on_transform_error = "error"
            THEN MappingError
            ELSE mapping.default
      [] OTHER -> mapping.default

\* C27, amended: the required half as stated; a non-required missing source
\* yields the mapping's default when one is given, after the mapping's
\* transform has been applied to it (a failing transform leaves the default
\* as it is, or makes process return an ERROR event when on_transform_error
\* is "error"), and otherwise omits the target.
C27_MissingSource ==
    Mapped =>
        \A k \in DOMAIN mapper.mappings :
            /\ RequiredMissing(k)
            /\ (~mapper.mappings[k].required /\ MissingSource(k)) =>
                  LET m == mapper.mappings[k]
                      d == DefaultYields(m, mapper.error_handling)
                  IN IF IsNone(m.default) THEN MappedOk => ~HasTarget(k)
                     ELSE IF d = MappingError
                     THEN mapper.returned.type = "ERROR"
                     ELSE MappedOk => HasTarget(k) /\ TargetValue(k) = d

\* A required source is missing under "skip": its target is left out and
\* the other mapping is applied.
C27_Witness ==
    /\ Mapped
    /\ mapper.error_handling.on_missing_required = "skip"
    /\ mapper.mappings[2].required
    /\ MissingSource(2)
    /\ MappedOk
    /\ ~HasTarget(2)
    /\ HasTarget(1)
    /\ TargetValue(1) = Text("ada")

\* A required source is missing under "null" and under "error".
C27_NullWitness ==
    /\ Mapped
    /\ mapper.error_handling.on_missing_required = "null"
    /\ mapper.mappings[1].required
    /\ MissingSource(1)
    /\ MappedOk
    /\ IsNone(TargetValue(1))
C27_ErrorWitness ==
    /\ Mapped
    /\ mapper.error_handling.on_missing_required = "error"
    /\ mapper.mappings[2].required
    /\ MissingSource(2)
    /\ ~MissingSource(1)
    /\ mapper.returned.type = "ERROR"

\* A non-required source is missing: the default, transformed, is set.
C27_DefaultWitness ==
    /\ Mapped
    /\ ~mapper.mappings[1].required
    /\ MissingSource(1)
    /\ mapper.mappings[1].default = Text("n/a")
    /\ mapper.mappings[1].transform = "uppercase"
    /\ MappedOk
    /\ TargetValue(1) = Text("N/A")


(***************************************************************************)
(* Properties of the hooks and the processor selection of update           *)
(***************************************************************************)

\* The update call that has just returned ran its pipeline.
Ran == ret.kind = "return" /\ ret.accepted

\* The calls of a log made by the hook.
CallsOf(log, hook) == {k \in DOMAIN log : log[k].hook = hook}

\* In the calls of one update: process is called at most once, on the
\* processor the selection chose, with the event the selection was offered;
\* the selection chose the first processor that can handle the event, and
\* none when no processor can; when it chose none, process is not called and
\* the first after hook is given the result None.
FirstOnly(log) ==
    /\ Cardinality(CallsOf(log, "process")) <= 1
    /\ \A k \in CallsOf(log, "process") :
          /\ k > 1
          /\ log[k - 1].hook = "select"
          /\ log[k - 1].i = log[k].i
          /\ log[k - 1].arg = log[k].arg
    /\ \A k \in CallsOf(log, "select") :
          LET ch == log[k].out
              i == log[k].i
          IN /\ IF \E j \in DOMAIN ch : ch[j]
                THEN /\ i \in DOMAIN ch
                     /\ ch[i]
                     /\ \A j \in DOMAIN ch : j < i => ~ch[j]
                ELSE i = 0
             /\ i = 0 => /\ CallsOf(log, "process") = {}
                         /\ k < Len(log) => /\ log[k + 1].hook = "after"
                                             /\ log[k + 1].res = 0
             /\ (i # 0 /\ k < Len(log)) => log[k + 1].hook = "process"

\* C28: BaseNode.update calls process on exactly one processor, the first
\* in registration order whose can_handle(event) is true, and on no later
\* processor even if it can also handle the event; when no processor can
\* handle the event, no process call is made and the result is null.
C28_FirstProcessorOnly ==
    /\ \A k \in DOMAIN stack :
          /\ FirstOnly(stack[k].log)
          /\ (stack[k].pc = "after" /\ stack[k].i = 1
                 /\ CallsOf(stack[k].log, "process") = {}) =>
                stack[k].result = 0
    /\ Ran => FirstOnly(ret.log)

\* Both processors can handle the event: only the first was called.
C28_Witness ==
    /\ Ran
    /\ \E k \in CallsOf(ret.log, "select") :
          /\ ret.log[k].out = <<TRUE, TRUE>>
          /\ ret.log[k + 1].hook = "process"
          /\ ret.log[k + 1].i = 1
    /\ calls[ret.node].process = 1

\* Only the second can handle it; none can.
C28_SecondWitness ==
    /\ Ran
    /\ \E k \in CallsOf(ret.log, "select") :
          /\ ret.log[k].out = <<FALSE, TRUE>>
          /\ ret.log[k + 1].hook = "process"
          /\ ret.log[k + 1].i = 2
C28_NoneWitness ==
    /\ Ran
    /\ \E k \in CallsOf(ret.log, "select") :
          ret.log[k].out = <<FALSE, FALSE>>
    /\ calls[ret.node].process = 0
    /\ fanned_out[ret.node] = <<>>

\* In the calls of one update of the node for the event: the k-th call is
\* the before hook of the k-th middleware, given the event the hook before
\* it returned (the first: the event of the update), and the selection
\* comes after the hooks of all middleware and is offered what the last of
\* them returned.
Threaded(node, event, log) ==
    LET n == Len(middleware[node]) IN
    /\ \A k \in CallsOf(log, "before") :
          /\ k <= n
          /\ log[k].i = k
          /\ log[k].arg = IF k = 1 THEN event ELSE log[k - 1].out
          /\ k > 1 => log[k - 1].hook = "before" /\ log[k - 1].out # Raise
    /\ \A k \in CallsOf(log, "select") :
          /\ k = n + 1
          /\ \A j \in 1..n : log[j].hook = "before"
          /\ log[k].arg = IF n = 0 THEN event ELSE log[n].out

\* An update whose hooks so far have all returned, whatever the type of the
\* events they returned, is about to call the next hook.
ChainGoesOn(f) ==
    (/\ Len(f.log) < Len(middleware[f.node])
     /\ \A k \in DOMAIN f.log : f.log[k].out # Raise) =>
        /\ f.pc = "before"
        /\ f.i = Len(f.log) + 1
        /\ f.processed = IF f.log = <<>> THEN f.event
                          ELSE f.log[Len(f.log)].out

\* C29: BaseNode.update calls before_process on every middleware in
\* registration order, each hook receiving the event returned by the
\* previous hook; a hook that returns an ERROR-typed event does not stop the
\* chain: the remaining hooks still run, and that event is what is offered
\* to processor selection.
C29_BeforeChain ==
    /\ \A k \in DOMAIN stack :
          /\ Threaded(stack[k].node, stack[k].event, stack[k].log)
          /\ ChainGoesOn(stack[k])
    /\ Ran => Threaded(ret.node, ret.event, ret.log)

\* The first hook returned an ERROR-typed event: the second hook was given
\* it, and so was the selection.
C29_Witness ==
    /\ Ran
    /\ Len(ret.log) >= 3
    /\ ret.log[1].hook = "before"
    /\ ret.log[1].out # ret.event
    /\ heap[ret.log[1].out].type = "ERROR"
    /\ ret.log[2].hook = "before"
    /\ ret.log[2].arg = ret.log[1].out
    /\ ret.log[3].hook = "select"
    /\ ret.log[3].arg = ret.log[1].out

\* Both hooks replaced the event.
C29_ReplacedWitness ==
    /\ Ran
    /\ Len(ret.log) >= 3
    /\ ret.log[1].out \notin {ret.event, Raise}
    /\ ret.log[2].arg = ret.log[1].out
    /\ ret.log[2].out \notin {ret.log[1].out, Raise}
    /\ ret.log[3].hook = "select"
    /\ ret.log[3].arg = ret.log[2].out

\* The result the call before the k-th call of a log left behind: what the
\* processor or the after hook returned, None after a selection.
ResultBefore(log, k) ==
    IF log[k - 1].hook \in {"process", "after"} THEN log[k - 1].out ELSE 0

\* In the calls of one update: the after hooks are called in registration
\* order, the first with the result of the processor and each later one
\* with what the hook before it returned.
AfterInOrder(log) ==
    \A k \in CallsOf(log, "after") :
        /\ k > 1
        /\ log[k].i = Cardinality({j \in CallsOf(log, "after") : j <= k})
        /\ log[k].res = ResultBefore(log, k)
        /\ log[k].res # Raise

\* An update that ran to its end called the after hook of every middleware
\* and fanned out what the last of them returned, or nothing for None.
LastIsFannedOut ==
    (Ran /\ ~ret.failed) =>
        LET final == ResultBefore(ret.log, Len(ret.log) + 1) IN
        /\ Cardinality(CallsOf(ret.log, "after")) =
              Len(middleware[ret.node])
        /\ IF final = 0 THEN ~ret.notified
           ELSE ret.notified /\ ret.emitted = final

\* C30 as stated: BaseNode.update calls after_process on every middleware
\* in registration order, passing as first argument the original event as
\* it was handed to update (before any before_process replacement) and as
\* second argument the result returned by the previous hook (the
\* processor's result for the first hook); the value returned by the last
\* hook is what is fanned out.
C30_Original ==
    /\ \A k \in DOMAIN stack :
          /\ AfterInOrder(stack[k].log)
          /\ \A j \in CallsOf(stack[k].log, "after") :
                stack[k].log[j].arg = stack[k].event
    /\ Ran => /\ AfterInOrder(ret.log)
              /\ \A j \in CallsOf(ret.log, "after") :
                    ret.log[j].arg = ret.event
    /\ LastIsFannedOut

\* What holds: the order, the second argument and the fan-out are as
\* stated; the first argument is the event the before chain ended with, the
\* one that was offered to the processors.
C30_ProcessedEvent ==
    /\ \A k \in DOMAIN stack :
          /\ AfterInOrder(stack[k].log)
          /\ \A j \in CallsOf(stack[k].log, "after") :
                \E c \in CallsOf(stack[k].log, "select") :
                    stack[k].log[j].arg = stack[k].log[c].arg
    /\ Ran => /\ AfterInOrder(ret.log)
              /\ \A j \in CallsOf(ret.log, "after") :
                    \E c \in CallsOf(ret.log, "select") :
                        ret.log[j].arg = ret.log[c].arg
    /\ LastIsFannedOut


(***************************************************************************)
(* Properties of the error event                                           *)
(***************************************************************************)

\* The update call that has just returned failed: it fanned out the ERROR
\* event it synthesized for the event it was given.
Failed == Ran /\ ret.failed /\ ret.notified

\* C31 as stated: the ERROR event a node synthesizes for a failed update
\* always has metadata.status = "error", also when the original event's
\* metadata already contains a status key; every other key of the original
\* metadata is carried over unchanged.
C31_Original ==
    Failed =>
        /\ heap[ret.emitted].type = "ERROR"
        /\ heap[ret.emitted].metadata =
              {item \in heap[ret.event].metadata : item[1] # "status"}
              \cup {Item("status", "error")}

\* What holds: the original metadata is carried over whole, its status
\* included; the status is "error" only when the original has none.
C31_OriginalStatusWins ==
    Failed =>
        /\ heap[ret.emitted].type = "ERROR"
        /\ heap[ret.event].metadata \subseteq heap[ret.emitted].metadata
        /\ heap[ret.emitted].metadata \ heap[ret.event].metadata =
              IF "status" \in Keys(heap[ret.event].metadata) THEN {}
              ELSE {Item("status", "error")}


(***************************************************************************)
(* Properties of the observers set                                         *)
(***************************************************************************)

\* C32 as stated: in every state reachable through a plain node's public
\* operations (add_observer, remove_observer, add_edge_to, remove_edge_to),
\* the node's observers set equals its outgoing-neighbour set.
C32_Original == \A n \in Node : observers[n] = outgoing_edges[n]

\* What holds: the edge operations keep outgoing and incoming in step; the
\* observers set follows them only as far as the observer operations have
\* left it alone.
C32_EdgesInStep ==
    \A a, b \in Node : (b \in outgoing_edges[a]) <=> (a \in incoming_edges[b])


(***************************************************************************)
(* C33: back-pressure of the listen loop                                   *)
(***************************************************************************)

\* The numbers of the broker messages whose MQTT_MESSAGE event the
\* subscriber n1 has handed to update of its observer o, in call order.
MessagesReceived(o) ==
    LET from_n1 == SelectSeq(received[o],
                       LAMBDA r : r.from = "n1" /\ r.type = "MQTT_MESSAGE")
    IN [k \in 1..Len(from_n1) |-> from_n1[k].data.value.raw_payload.of.value]

\* The sequence 1, 2, ..., n.
UpTo(n) == [k \in 1..n |-> k]

\* The sequence of numbers increases strictly.
Increasing(q) == \A j, k \in 1..Len(q) : j < k => q[j] < q[k]

C33_CancelWitness ==
    /\ sub.task = "done"
    /\ \E o, q \in observers["n1"] :
          /\ MessagesReceived(o) = <<1>>
          /\ MessagesReceived(q) = <<>>


(***************************************************************************)
(* C34: a DISABLED publisher                                               *)
(***************************************************************************)

\* C34 as stated: an update call on a publisher whose state is DISABLED
\* publishes nothing (no request to the manager, no message to the broker)
\* and emits nothing to the observers.
C34_Original ==
    [][(pub.state = "DISABLED" /\ pub'.updates # pub.updates) =>
          /\ pub'.requests = pub.requests
          /\ pub'.sent = pub.sent
          /\ pub'.emitted = pub.emitted]_vars


(***************************************************************************)
(* C35: re-entry of update within one call chain                           *)
(***************************************************************************)

\* C35 as stated: within the call chain of one trigger_event, no node has
\* two update calls in progress.
C35_Original == \A n \in Node : Running(n) <= 1

\* What holds: update is called on a node that has an update in progress
\* only from a later call of the same chain, that is, along a cycle of the
\* graph; the node is PROCESSING at the call (or already in ERROR, with
\* the fan-out of its error event in progress).
C35_ReentryAlongCycle ==
    \A j, k \in DOMAIN stack :
        (j < k /\ stack[j].node = stack[k].node) =>
            /\ stack[j].pc = "notify"
            /\ stack[k].state0 \in {"PROCESSING", "ERROR"}
            /\ stack[k].from # NoNode


(***************************************************************************)
(* C36: the state of a node under two overlapping trigger_event calls      *)
(***************************************************************************)

\* The update calls in progress, of the running and of the parked chain.
InFlight ==
    {stack[k] : k \in DOMAIN stack} \cup {parked[k] : k \in DOMAIN parked}

\* C36 as stated: a node with an update call in progress is never IDLE,
\* and it is PROCESSING as long as no call of it has failed.
C36_Original ==
    \A f \in InFlight :
        /\ state[f.node] # "IDLE"
        /\ (\A g \in InFlight : g.node = f.node => ~g.failed) =>
              state[f.node] = "PROCESSING"


(***************************************************************************)
(* C37: overlapping start() and stop() calls on a subscriber               *)
(***************************************************************************)

\* The managers that hold an open connection, and the listener tasks that
\* have not finished.
LiveManagers == {m \in DOMAIN sub.managers : sub.managers[m].client}
LiveTasks == {t \in DOMAIN sub.tasks : sub.tasks[t].status # "done"}

\* No start() or stop() call is in progress.
Quiescent ==
    \A c \in DOMAIN sub.calls : sub.calls[c].pc \in {"returned", "raised"}

\* C37 as stated: at most one connection manager and at most one listener
\* task are live at any time, and none is live once is_running is false
\* and no call is in progress.
C37_Original ==
    /\ Cardinality(LiveManagers) <= 1
    /\ Cardinality(LiveTasks) <= 1
    /\ (~sub.is_running /\ Quiescent) =>
          LiveManagers = {} /\ LiveTasks = {}


(***************************************************************************)
(* C38: is_connected and the client                                        *)
(***************************************************************************)

\* C38 as stated: whenever is_connected is true the manager holds a
\* client; in particular is_connected is false after connect() has raised
\* its terminal ConnectionError.
C38_Original ==
    /\ mqtt.is_connected => mqtt.client
    /\ (mqtt.pc = "raised" /\ mqtt.exc = "ConnectionError") =>
          ~mqtt.is_connected

\* What holds: the flag is true without a client only after an attempt
\* whose connection was opened has failed (while subscribing), and it is
\* false after a terminal error whose last attempt failed to connect and
\* was not preceded by such an attempt.
C38_FlagAfterSubscribeError ==
    (mqtt.is_connected /\ ~mqtt.client) =>
        \E k \in DOMAIN mqtt.outcomes : mqtt.outcomes[k] = "subscribe_error"


(***************************************************************************)
(* C39: what a normal return of connect() means                            *)
(***************************************************************************)

\* C39 as stated: whenever connect() has returned normally, is_connected
\* is true, for every retry configuration.
C39_Original == mqtt.pc = "returned" => mqtt.is_connected

\* What holds: with max_retries >= 1 a normal return of connect() leaves
\* the manager connected, with a client and the topics subscribed.
C39_WhenRetriesPositive ==
    (mqtt.pc = "returned" /\ mqtt.cfg.max_retries >= 1) =>
        /\ mqtt.is_connected
        /\ mqtt.client
        /\ mqtt.subscribed = mqtt.cfg.topics


(***************************************************************************)
(* C40: termination on acyclic graphs                                      *)
(***************************************************************************)

\* No node is left in state PROCESSING.
NoneProcessing == \A n \in Node : state[n] \in {"IDLE", "ERROR"}

\* C40: on an acyclic graph whose hooks terminate, a trigger_event call
\* that has started an update eventually returns, and whenever no call is
\* in progress no node is in state PROCESSING.
C40_Terminates ==
    /\ (stack # <<>>) ~> (stack = <<>> /\ NoneProcessing)
    /\ [](stack = <<>> => NoneProcessing)

\* trigger_event has returned after a fan-out that went through n2 to n3
\* and directly to n3, with a failure on the way.
C40_Witness ==
    /\ stack = <<>>
    /\ triggers = 1
    /\ Len(received["n3"]) = 2
    /\ \E n \in Node : state[n] = "ERROR"
    /\ NoneProcessing

====
